---- MODULE Spec2Model ----
(***************************************************************************)
(* purewin, package analyze: the concurrent directory scanner              *)
(* (Scanner.Scan / scanDir / calculateSizes) and the bounded top-K fuzzy   *)
(* search (fuzzyMatch / searchHeap / SearchTreeBounded); and the terminal  *)
(* UI that consumes both (AnalyzeModel.Update and its helpers).            *)
(*                                                                         *)
(* A path is the sequence of its components; a tree is a function from     *)
(* the paths of its entries to DirEntry records. The filesystem is an      *)
(* input record fs: what os.Lstat, os.ReadDir, DirEntry.Info and           *)
(* GetFileAttributes answer for each node.                                 *)
(***************************************************************************)
EXTENDS Integers, Sequences, FiniteSets, Bags, TLC

VARIABLES
    fs,            \* the filesystem the scan runs against (input)
    maxConcurrency,\* argument of NewScanner (input)
    excludeArg,    \* argument of NewScanner (input)
    semCap,        \* cap(s.sem)
    sem,           \* len(s.sem): tokens currently held
    exclude,       \* s.exclude: set of lower-cased names
    warnings,      \* s.warnings
    scannedCount,  \* s.scannedCount
    scanPc,        \* position of the Scan call: "idle", "scanning", "ret"
    scanErr,       \* Scan's error result (TRUE: non-nil)
    scanRoot,      \* Scan's *DirEntry result: a path, or Nil
    tree,          \* the DirEntry objects allocated so far, by path
    tasks,         \* the scanDir invocations, by the path of their entry
    listed,        \* the os.ReadDir calls made so far: path -> number of calls
    rootPathLen,   \* len(rootPath) of the Scan call, after filepath.Clean (input)
    fsCalls,       \* the filesystem calls made so far, each with the path string it was given
    query,         \* SearchTreeBounded: argument query
    maxResults,    \* SearchTreeBounded: argument maxResults
    searchRoot,    \* SearchTreeBounded: argument root, a path or Nil
    searchPc,      \* position of the search call: "idle", "walk", "drain", "ret"
    pending,       \* the entries the walk has still to visit, next first
    h,             \* the searchHeap
    results,       \* the result slice
    scored,        \* the entries handed to fuzzyMatch so far in this call, in order
    searchCalls,   \* search calls followed by another with the same arguments
    prevResults,   \* what the search call before this one returned
    calls,         \* Scan calls followed by another on the same Scanner, since the initial state
    polled,        \* what the last ScannedCount() call of the polling thread returned
    fmStr,         \* fuzzyMatch: argument str
    fmPattern,     \* fuzzyMatch: argument pattern
    fmPc,          \* position of the fuzzyMatch call: "idle", "ret"
    fmMatched,     \* fuzzyMatch: the bool result
    fmScore,       \* fuzzyMatch: the int result
    mRoot,         \* AnalyzeModel.root: a path, or Nil before the UI is started
    current,       \* AnalyzeModel.current
    cursor,        \* AnalyzeModel.cursor
    breadcrumb,    \* AnalyzeModel.breadcrumb
    height,        \* AnalyzeModel.height
    offset,        \* AnalyzeModel.offset
    largeOnly,     \* AnalyzeModel.largeOnly
    confirmDelete, \* AnalyzeModel.confirmDelete
    quitting,      \* AnalyzeModel.quitting
    mErr,          \* AnalyzeModel.err (TRUE: non-nil)
    maxDepth,      \* AnalyzeModel.maxDepth
    minSize,       \* AnalyzeModel.minSize
    searching,     \* AnalyzeModel.searching
    searchQuery,   \* AnalyzeModel.searchQuery
    searchResults, \* AnalyzeModel.searchResults
    searchCursor,  \* AnalyzeModel.searchCursor
    ticks,         \* the searchTickMsg timers running: the bag of their queries
    deletes,       \* the deleteEntry commands running: the bag of their entry.Path
    issued,        \* the number of deleteEntry commands Update has returned so far
    armed,         \* the entry under the cursor when Backspace armed the pending
                   \* confirmation, Nil when none is pending
    lastMsg        \* the message Update processed last

scanVars == <<fs, maxConcurrency, excludeArg, semCap, sem, exclude, warnings,
              scannedCount, scanPc, scanErr, scanRoot, tree, tasks, listed,
              rootPathLen, fsCalls>>

\* scanVars without the tree
scanRest == <<fs, maxConcurrency, excludeArg, semCap, sem, exclude, warnings,
              scannedCount, scanPc, scanErr, scanRoot, tasks, listed,
              rootPathLen, fsCalls>>

searchVars == <<query, maxResults, searchRoot, searchPc, pending, h, results, scored,
                searchCalls, prevResults>>

callerVars == <<calls, polled>>

fuzzyVars == <<fmStr, fmPattern, fmPc, fmMatched, fmScore>>

uiVars == <<mRoot, current, cursor, breadcrumb, height, offset, largeOnly,
            confirmDelete, quitting, mErr, maxDepth, minSize, searching,
            searchQuery, searchResults, searchCursor, ticks, deletes, issued,
            armed, lastMsg>>

vars == <<scanVars, searchVars, callerVars, fuzzyVars, uiVars>>

\* ---------------------------------------------------------------- bounds

\* Number of junction crossings a path may hold before the listing of it
\* fails (the operating system refuses to resolve deeper reparse chains).
MaxLinks == 1

\* Largest maxResults a search is called with.
MaxK == 3

\* Number of times a Scan call is followed by another on the same Scanner.
MaxScans == 1

\* Number of times a search call is followed by another with the same arguments.
MaxRepeats == 1

\* How far below MaxPathLen the root paths of the long-path scans start.
MaxMargin == 3

\* Longest candidate name and longest pattern fuzzyMatch is called with.
MaxStrLen == 3

\* ---------------------------------------------------------------- helpers

Nil == <<>>

Last(s) == s[Len(s)]

Min(a, b) == IF a < b THEN a ELSE b

RECURSIVE SumSeq(_)
SumSeq(s) == IF s = <<>> THEN 0 ELSE s[1] + SumSeq(Tail(s))

\* unicode.ToLower on the runes the model uses
ToLowerRune(c) ==
    CASE c = "A" -> "a"
      [] c = "B" -> "b"
      [] c = "C" -> "c"
      [] c = "G" -> "g"
      [] c = "J" -> "j"
      [] c = "L" -> "l"
      [] c = "O" -> "o"
      [] c = "R" -> "r"
      [] c = "X" -> "x"
      [] OTHER -> c

\* strings.ToLower
ToLower(s) == [i \in DOMAIN s |-> ToLowerRune(s[i])]

\* ---------------------------------------------------------------- filesystem inputs

Nodes == {"r", "a", "b", "c", "j", "fa", "fb"}

\* A filesystem: kids is the listing of each node in the order os.ReadDir
\* returns it, target the node whose content a listing of the node shows
\* (the node itself unless it is a junction or symlink).
MkFs(kids, isDir, size, reparse, target, readErr, statErr, rootStatErr) ==
    [ root        |-> "r",
      kids        |-> kids,
      name        |-> [n \in Nodes |->
                         CASE n = "r"  -> <<"r">>
                           [] n = "a"  -> <<"a">>
                           [] n = "b"  -> <<"B">>
                           [] n = "c"  -> <<"c">>
                           [] n = "j"  -> <<"j">>
                           [] n = "fa" -> <<"x", ".", "l">>
                           [] n = "fb" -> <<"c">>],
      isDir       |-> isDir,
      size        |-> size,
      reparse     |-> reparse,
      target      |-> target,
      readErr     |-> readErr,
      statErr     |-> statErr,
      rootStatErr |-> rootStatErr ]

NoKids == [n \in Nodes |-> <<>>]
Self == [n \in Nodes |-> n]
PlainAttr == [n \in Nodes |-> "no"]

\* root/{a/{fa}, b/{fb}, c}: two subdirectories and a file, with listing and
\* stat failures, or a root that is a plain file or cannot be statted.
PlainFs ==
    { MkFs([NoKids EXCEPT !["r"] = <<"a", "b", "c">>,
                          !["a"] = <<"fa">>, !["b"] = <<"fb">>],
           [n \in Nodes |-> n \in {"a", "b"} \/ (n = "r" /\ rootIsDir)],
           [n \in Nodes |-> CASE n = "fa" -> sa [] n = "fb" -> 30
                              [] n = "c" -> 5 [] n = "r" -> 7 [] OTHER -> 0],
           PlainAttr, Self, readErr, statErr, rootStatErr) :
        sa \in {10, 30, 40}, rootIsDir \in BOOLEAN, rootStatErr \in BOOLEAN,
        readErr \in {{}, {"a"}, {"r"}}, statErr \in {{}, {"b"}, {"c"}, {"fb"}} }

\* root/{a/{fa}, j}: j is a junction back to the root. The listing reports
\* it as a directory or not; the attribute query reports the reparse bit
\* or fails.
JunctionFs ==
    { MkFs([NoKids EXCEPT !["r"] = <<"a", "j">>, !["a"] = <<"fa">>],
           [n \in Nodes |-> n \in {"r", "a"} \/ (n = "j" /\ jIsDir)],
           [n \in Nodes |-> IF n = "fa" THEN 10 ELSE 0],
           [PlainAttr EXCEPT !["j"] = jAttr],
           [Self EXCEPT !["j"] = "r"], {}, {}, FALSE) :
        jIsDir \in BOOLEAN, jAttr \in {"yes", "err"} }

FsInputs == PlainFs \cup JunctionFs

MaxConcurrencyInputs == {-1, 0, 1, 2}

ExcludeInputs ==
    { <<>>, << <<"b">> >>, << <<"C">> >>, << <<"J">> >>, << <<"R">> >>,
      << <<"B">>, <<"c">> >> }

\* The children a listing of path p shows.
Listing(f, p) == f.kids[f.target[Last(p)]]

\* Junction crossings on path p.
Links(f, p) == Cardinality({i \in DOMAIN p : f.target[p[i]] # p[i]})

\* os.ReadDir(p) fails
ReadDirFails(f, p) == Last(p) \in f.readErr \/ Links(f, p) > MaxLinks

\* ---------------------------------------------------------------- scanner

DefaultConcurrency == 8
MaxWarnings == 500

MaxPathLen == 260

\* The root path of the scans that stay far from MaxPathLen: C:\r
ShortRootLen == Len(<<"C", ":", "\\", "r">>)

\* len(p.Path): the root path, and a separator and a name for every
\* component under it (filepath.Join).
PathLen(f, rootLen, p) ==
    rootLen + SumSeq([i \in 1 .. Len(p) - 1 |-> 1 + Len(f.name[p[i + 1]])])

\* A path string: its length, and whether it starts with \\?\
PathString(n, prefixed) == [len |-> n, prefixed |-> prefixed]

\* longPath
longPath(path) ==
    IF path.len >= MaxPathLen /\ ~path.prefixed
    THEN PathString(path.len + 4, TRUE)
    ELSE path

FsCall(call, path) == [call |-> call, path |-> path]

\* NewScanner: the semaphore capacity
NewScannerCap(mc) == IF mc <= 0 THEN DefaultConcurrency ELSE mc

\* NewScanner: the exclusion map
NewScannerExclude(ex) == {ToLower(ex[i]) : i \in DOMAIN ex}

\* Scanner.addWarning with the cap test inverted (a faulty variant)
addWarning_InvertedCap(w, msg) == IF Len(w) >= MaxWarnings THEN Append(w, msg) ELSE w

\* Scanner.addWarning without the cap (a faulty variant)
addWarning_NoCap(w, msg) == Append(w, msg)

\* Scanner.addWarning
addWarning(w, msg) == IF Len(w) < MaxWarnings THEN Append(w, msg) ELSE w

\* isReparsePoint testing a flag no junction carries (a faulty variant)
isReparsePoint_WrongFlag(f, p) == FALSE

\* isReparsePoint answering true when the attribute query fails (a faulty variant)
isReparsePoint_FailClosed(f, p) == f.reparse[Last(p)] \in {"yes", "err"}

\* isReparsePoint: a failed attribute query answers false
isReparsePoint(f, p) == f.reparse[Last(p)] = "yes"

\* scanDir: e.IsDir() && s.exclude[strings.ToLower(e.Name())]
isExcluded_CaseSensitive(ex, f, e) == f.isDir[e] /\ f.name[e] \in ex

\* scanDir's exclusion test without e.IsDir() (a faulty variant)
isExcluded_AnyKind(ex, f, e) == ToLower(f.name[e]) \in ex

isExcluded(ex, f, e) == f.isDir[e] /\ ToLower(f.name[e]) \in ex

\* scanDir: <-s.sem
semRelease_Missing(n) == n

semRelease(n) == n - 1

\* sync.WaitGroup.Wait: blocks until the counter is zero
wgWait_NoJoin(t) == TRUE

wgWait(t) == t.wg = 0

\* filepath.Join(entry.Path, e.Name())
Join(p, e) == Append(p, e)

ParentPath(p) == SubSeq(p, 1, Len(p) - 1)

NewTask == [pc |-> "acquire", entries |-> <<>>, idx |-> 1, wg |-> 0]

\* The goroutine of scanDir's loop without dir.Scanned = true (a faulty variant)
TaskExit_NoScanned(tr, ts, p) ==
    IF Len(p) = 1
    THEN [tree |-> tr, tasks |-> [ts EXCEPT ![p].pc = "done"]]
    ELSE [tree  |-> tr,
          tasks |-> [ts EXCEPT ![p].pc = "done",
                               ![ParentPath(p)].wg = @ - 1]]

\* The goroutine of scanDir's loop after scanDir has returned:
\* dir.Scanned = true, then the deferred wg.Done(). The root's scanDir
\* runs in Scan itself and only returns.
TaskExit(tr, ts, p) ==
    IF Len(p) = 1
    THEN [tree |-> tr, tasks |-> [ts EXCEPT ![p].pc = "done"]]
    ELSE [tree  |-> [tr EXCEPT ![p].Scanned = TRUE],
          tasks |-> [ts EXCEPT ![p].pc = "done",
                               ![ParentPath(p)].wg = @ - 1]]

\* insertionSortLessFunc, the branch sort.Slice takes for fewer than 12
\* elements, with less(i, j) = Children[i].Size > Children[j].Size.
\* (CHOOSE r \in {F(x) : x \in {v}} : TRUE is F(v), with v evaluated once.)
RECURSIVE SinkLeft(_, _, _)
SinkLeft(tr, s, j) ==
    IF j > 1 /\ tr[s[j]].Size > tr[s[j - 1]].Size
    THEN CHOOSE r \in {SinkLeft(tr, s2, j - 1) :
                          s2 \in {[s EXCEPT ![j] = s[j - 1], ![j - 1] = s[j]]}} : TRUE
    ELSE s

RECURSIVE InsertionSort(_, _, _)
InsertionSort(tr, s, i) ==
    IF i > Len(s) THEN s
    ELSE CHOOSE r \in {InsertionSort(tr, s2, i + 1) : s2 \in {SinkLeft(tr, s, i)}} : TRUE

\* sort.Slice(entry.Children, ...): unsorted (a faulty variant), and as the code has it
sortChildren_Missing(tr, s) == s

sortChildren(tr, s) == InsertionSort(tr, s, 2)

\* Scanner.calculateSizes
RECURSIVE calculateSizes(_, _)
RECURSIVE calcChildren(_, _, _)
calcChildren(tr, cs, i) ==
    IF i > Len(cs) THEN tr
    ELSE CHOOSE r \in {calcChildren(t, cs, i + 1) : t \in {calculateSizes(tr, cs[i])}} : TRUE

\* calculateSizes without the recursive calls (a faulty variant)
calculateSizes_NoRecursion(tr, p) ==
    IF ~tr[p].IsDir THEN tr
    ELSE [tr EXCEPT ![p].Size =
                        SumSeq([i \in DOMAIN tr[p].Children |-> tr[tr[p].Children[i]].Size]),
                    ![p].Children = sortChildren(tr, tr[p].Children)]

calculateSizes(tr, p) ==
    IF ~tr[p].IsDir THEN tr
    ELSE CHOOSE r \in
            { [t1 EXCEPT ![p].Size =
                             SumSeq([i \in DOMAIN t1[p].Children |->
                                        t1[t1[p].Children[i]].Size]),
                         ![p].Children = sortChildren(t1, t1[p].Children)] :
              t1 \in {calcChildren(tr, tr[p].Children, 1)} } : TRUE

\* entry.Path of the entry at p: the root path as given, unprefixed, and
\* the names joined to it
PathOf(p) == PathString(PathLen(fs, rootPathLen, p), FALSE)

\* The message Update processed last. A key: which one, the search result
\* it selected, the entry of the deleteEntry command it returned and the
\* entry the confirmation was armed on. A searchTickMsg: its query. A
\* deleteResultMsg: its path and whether err is nil.
NoMsg == [kind |-> "none", key |-> "", selected |-> Nil, deleteEntry |-> Nil,
          armed |-> Nil, query |-> <<>>, path |-> Nil, ok |-> FALSE]

\* Before NewAnalyzeModel: there is no UI
NoUi ==
    /\ mRoot = Nil
    /\ current = Nil
    /\ cursor = 0
    /\ breadcrumb = <<>>
    /\ height = 0
    /\ offset = 0
    /\ largeOnly = FALSE
    /\ confirmDelete = FALSE
    /\ quitting = FALSE
    /\ mErr = FALSE
    /\ maxDepth = 0
    /\ minSize = 0
    /\ searching = FALSE
    /\ searchQuery = <<>>
    /\ searchResults = <<>>
    /\ searchCursor = 0
    /\ ticks = EmptyBag
    /\ deletes = EmptyBag
    /\ issued = 0
    /\ armed = Nil
    /\ lastMsg = NoMsg

Init ==
    /\ fs \in FsInputs
    /\ maxConcurrency \in MaxConcurrencyInputs
    /\ excludeArg \in ExcludeInputs
    /\ semCap = NewScannerCap(maxConcurrency)
    /\ sem = 0
    /\ exclude = NewScannerExclude(excludeArg)
    /\ warnings = <<>>
    /\ scannedCount = 0
    /\ scanPc = "idle"
    /\ scanErr = FALSE
    /\ scanRoot = Nil
    /\ tree = <<>>
    /\ tasks = <<>>
    /\ listed = <<>>
    /\ rootPathLen = ShortRootLen
    /\ fsCalls = {}
    /\ query = <<>>
    /\ maxResults = 0
    /\ searchRoot = Nil
    /\ searchPc = "idle"
    /\ pending = <<>>
    /\ h = <<>>
    /\ results = <<>>
    /\ scored = <<>>
    /\ searchCalls = 0
    /\ prevResults = <<>>
    /\ calls = 0
    /\ polled = 0
    /\ fmStr = <<>>
    /\ fmPattern = <<>>
    /\ fmPc = "idle"
    /\ fmMatched = FALSE
    /\ fmScore = 0
    /\ NoUi

\* Scan without the check of the Lstat error (a faulty variant)
Scan_NoErrCheck ==
    /\ scanPc = "idle"
    /\ LET rootPath == <<fs.root>>
           root == [Name |-> fs.name[fs.root], IsDir |-> fs.isDir[fs.root],
                    Size |-> 0, Children |-> <<>>, Parent |-> Nil,
                    Scanned |-> FALSE]
       IN  IF FALSE
           THEN /\ scanPc' = "ret"
                /\ scanErr' = TRUE
                /\ scanRoot' = Nil
                /\ UNCHANGED <<tree, tasks>>
           ELSE IF ~fs.isDir[fs.root]
           THEN /\ tree' = (rootPath :> [root EXCEPT !.Size = fs.size[fs.root],
                                                     !.Scanned = TRUE])
                /\ scanPc' = "ret"
                /\ scanErr' = FALSE
                /\ scanRoot' = rootPath
                /\ UNCHANGED tasks
           ELSE /\ tree' = (rootPath :> root)
                /\ tasks' = (rootPath :> NewTask)
                /\ scanPc' = "scanning"
                /\ UNCHANGED <<scanErr, scanRoot>>
    /\ fsCalls' = fsCalls \cup {FsCall("Lstat", longPath(PathOf(<<fs.root>>)))}
    /\ UNCHANGED <<searchVars, callerVars, fuzzyVars, uiVars>>
    /\ UNCHANGED <<rootPathLen, fs, maxConcurrency, excludeArg, semCap, sem, exclude,
                   warnings, scannedCount, listed>>

\* Scan without the early return for a root that is not a directory (a faulty variant)
Scan_NoFileCheck ==
    /\ scanPc = "idle"
    /\ LET rootPath == <<fs.root>>
           root == [Name |-> fs.name[fs.root], IsDir |-> fs.isDir[fs.root],
                    Size |-> 0, Children |-> <<>>, Parent |-> Nil,
                    Scanned |-> FALSE]
       IN  IF fs.rootStatErr
           THEN /\ scanPc' = "ret"
                /\ scanErr' = TRUE
                /\ scanRoot' = Nil
                /\ UNCHANGED <<tree, tasks>>
           ELSE IF FALSE
           THEN /\ tree' = (rootPath :> [root EXCEPT !.Size = fs.size[fs.root],
                                                     !.Scanned = TRUE])
                /\ scanPc' = "ret"
                /\ scanErr' = FALSE
                /\ scanRoot' = rootPath
                /\ UNCHANGED tasks
           ELSE /\ tree' = (rootPath :> root)
                /\ tasks' = (rootPath :> NewTask)
                /\ scanPc' = "scanning"
                /\ UNCHANGED <<scanErr, scanRoot>>
    /\ fsCalls' = fsCalls \cup {FsCall("Lstat", longPath(PathOf(<<fs.root>>)))}
    /\ UNCHANGED <<searchVars, callerVars, fuzzyVars, uiVars>>
    /\ UNCHANGED <<rootPathLen, fs, maxConcurrency, excludeArg, semCap, sem, exclude,
                   warnings, scannedCount, listed>>

\* Scan, up to the call of scanDir(root)
Scan ==
    /\ scanPc = "idle"
    /\ LET rootPath == <<fs.root>>
           root == [Name |-> fs.name[fs.root], IsDir |-> fs.isDir[fs.root],
                    Size |-> 0, Children |-> <<>>, Parent |-> Nil,
                    Scanned |-> FALSE]
       IN  IF fs.rootStatErr
           THEN /\ scanPc' = "ret"
                /\ scanErr' = TRUE
                /\ scanRoot' = Nil
                /\ UNCHANGED <<tree, tasks>>
           ELSE IF ~fs.isDir[fs.root]
           THEN /\ tree' = (rootPath :> [root EXCEPT !.Size = fs.size[fs.root],
                                                     !.Scanned = TRUE])
                /\ scanPc' = "ret"
                /\ scanErr' = FALSE
                /\ scanRoot' = rootPath
                /\ UNCHANGED tasks
           ELSE /\ tree' = (rootPath :> root)
                /\ tasks' = (rootPath :> NewTask)
                /\ scanPc' = "scanning"
                /\ UNCHANGED <<scanErr, scanRoot>>
    /\ fsCalls' = fsCalls \cup {FsCall("Lstat", longPath(PathOf(<<fs.root>>)))}
    /\ UNCHANGED <<searchVars, callerVars, fuzzyVars, uiVars>>
    /\ UNCHANGED <<rootPathLen, fs, maxConcurrency, excludeArg, semCap, sem, exclude,
                   warnings, scannedCount, listed>>

\* scanDir: the send on s.sem never blocking (a faulty variant)
Acquire_NoBlock(p) ==
    /\ tasks[p].pc = "acquire"
    /\ sem' = sem + 1
    /\ tasks' = [tasks EXCEPT ![p].pc = "readdir"]
    /\ UNCHANGED <<searchVars, callerVars, fuzzyVars, uiVars>>
    /\ UNCHANGED <<fsCalls, rootPathLen, fs, maxConcurrency, excludeArg, semCap, exclude, warnings,
                   scannedCount, scanPc, scanErr, scanRoot, tree, listed>>

\* scanDir: s.sem <- struct{}{}
Acquire(p) ==
    /\ tasks[p].pc = "acquire"
    /\ sem < semCap
    /\ sem' = sem + 1
    /\ tasks' = [tasks EXCEPT ![p].pc = "readdir"]
    /\ UNCHANGED <<searchVars, callerVars, fuzzyVars, uiVars>>
    /\ UNCHANGED <<fsCalls, rootPathLen, fs, maxConcurrency, excludeArg, semCap, exclude, warnings,
                   scannedCount, scanPc, scanErr, scanRoot, tree, listed>>

\* scanDir returning on a failed listing without a warning (a faulty variant)
ReadDir_NoWarning(p) ==
    /\ tasks[p].pc = "readdir"
    /\ sem' = semRelease(sem)
    /\ listed' = IF p \in DOMAIN listed THEN [listed EXCEPT ![p] = @ + 1]
                 ELSE listed @@ (p :> 1)
    /\ IF ReadDirFails(fs, p)
       THEN /\ warnings' = warnings
            /\ LET x == TaskExit(tree, tasks, p)
               IN  tree' = x.tree /\ tasks' = x.tasks
       ELSE /\ tasks' = [tasks EXCEPT
                           ![p].entries = Listing(fs, p),
                           ![p].pc = IF Listing(fs, p) = <<>> THEN "wait" ELSE "loop"]
            /\ UNCHANGED <<warnings, tree>>
    /\ fsCalls' = fsCalls \cup {FsCall("ReadDir", longPath(PathOf(p)))}
    /\ UNCHANGED <<searchVars, callerVars, fuzzyVars, uiVars>>
    /\ UNCHANGED <<rootPathLen, fs, maxConcurrency, excludeArg, semCap, exclude,
                   scannedCount, scanPc, scanErr, scanRoot>>

\* scanDir: os.ReadDir returns, <-s.sem, and the error branch
ReadDir(p) ==
    /\ tasks[p].pc = "readdir"
    /\ sem' = semRelease(sem)
    /\ listed' = IF p \in DOMAIN listed THEN [listed EXCEPT ![p] = @ + 1]
                 ELSE listed @@ (p :> 1)
    /\ IF ReadDirFails(fs, p)
       THEN /\ warnings' = addWarning(warnings, <<"cannot read", p>>)
            /\ LET x == TaskExit(tree, tasks, p)
               IN  tree' = x.tree /\ tasks' = x.tasks
       ELSE /\ tasks' = [tasks EXCEPT
                           ![p].entries = Listing(fs, p),
                           ![p].pc = IF Listing(fs, p) = <<>> THEN "wait" ELSE "loop"]
            /\ UNCHANGED <<warnings, tree>>
    /\ fsCalls' = fsCalls \cup {FsCall("ReadDir", longPath(PathOf(p)))}
    /\ UNCHANGED <<searchVars, callerVars, fuzzyVars, uiVars>>
    /\ UNCHANGED <<rootPathLen, fs, maxConcurrency, excludeArg, semCap, exclude,
                   scannedCount, scanPc, scanErr, scanRoot>>

\* scanDir's loop creating the child without its Parent link (a faulty variant)
LoopEntry_NoParent(p) ==
    /\ tasks[p].pc = "loop"
    /\ LET t         == tasks[p]
           e         == t.entries[t.idx]
           childPath == Join(p, e)
           next      == [t EXCEPT !.idx = @ + 1,
                                  !.pc = IF t.idx + 1 > Len(t.entries)
                                         THEN "wait" ELSE "loop"]
           child     == [Name |-> fs.name[e], IsDir |-> fs.isDir[e], Size |-> 0,
                         Children |-> <<>>, Parent |-> Nil, Scanned |-> FALSE]
       IN  /\ scannedCount' = scannedCount + 1
           /\ fsCalls' = IF fs.isDir[e] /\ ~isExcluded(exclude, fs, e)
                         THEN fsCalls \cup {FsCall("GetFileAttributes", PathOf(childPath))}
                         ELSE fsCalls
           /\ IF isExcluded(exclude, fs, e)
              THEN /\ tasks' = [tasks EXCEPT ![p] = next]
                   /\ UNCHANGED <<warnings, tree>>
              ELSE IF fs.isDir[e] /\ isReparsePoint(fs, childPath)
              THEN /\ warnings' = addWarning(warnings, <<"skipping junction/reparse", childPath>>)
                   /\ tasks' = [tasks EXCEPT ![p] = next]
                   /\ UNCHANGED tree
              ELSE IF e \in fs.statErr
              THEN /\ warnings' = addWarning(warnings, <<"cannot stat", childPath>>)
                   /\ tasks' = [tasks EXCEPT ![p] = next]
                   /\ UNCHANGED tree
              ELSE IF ~fs.isDir[e]
              THEN /\ tree' = [tree EXCEPT ![p].Children = Append(@, childPath)]
                              @@ (childPath :> [child EXCEPT !.Size = fs.size[e],
                                                             !.Scanned = TRUE])
                   /\ tasks' = [tasks EXCEPT ![p] = next]
                   /\ UNCHANGED warnings
              ELSE /\ tree' = [tree EXCEPT ![p].Children = Append(@, childPath)]
                              @@ (childPath :> child)
                   /\ tasks' = [tasks EXCEPT ![p] = [next EXCEPT !.wg = @ + 1]]
                               @@ (childPath :> NewTask)
                   /\ UNCHANGED warnings
    /\ UNCHANGED <<searchVars, callerVars, fuzzyVars, uiVars>>
    /\ UNCHANGED <<rootPathLen, fs, maxConcurrency, excludeArg, semCap, sem, exclude,
                   scanPc, scanErr, scanRoot, listed>>

\* scanDir's loop ended by a failed e.Info(), break for continue (a faulty variant)
LoopEntry_StatErrBreaks(p) ==
    /\ tasks[p].pc = "loop"
    /\ LET t         == tasks[p]
           e         == t.entries[t.idx]
           childPath == Join(p, e)
           next      == [t EXCEPT !.idx = @ + 1,
                                  !.pc = IF t.idx + 1 > Len(t.entries)
                                         THEN "wait" ELSE "loop"]
           child     == [Name |-> fs.name[e], IsDir |-> fs.isDir[e], Size |-> 0,
                         Children |-> <<>>, Parent |-> p, Scanned |-> FALSE]
       IN  /\ scannedCount' = scannedCount + 1
           /\ fsCalls' = IF fs.isDir[e] /\ ~isExcluded(exclude, fs, e)
                         THEN fsCalls \cup {FsCall("GetFileAttributes", PathOf(childPath))}
                         ELSE fsCalls
           /\ IF isExcluded(exclude, fs, e)
              THEN /\ tasks' = [tasks EXCEPT ![p] = next]
                   /\ UNCHANGED <<warnings, tree>>
              ELSE IF fs.isDir[e] /\ isReparsePoint(fs, childPath)
              THEN /\ warnings' = addWarning(warnings, <<"skipping junction/reparse", childPath>>)
                   /\ tasks' = [tasks EXCEPT ![p] = next]
                   /\ UNCHANGED tree
              ELSE IF e \in fs.statErr
              THEN /\ warnings' = addWarning(warnings, <<"cannot stat", childPath>>)
                   /\ tasks' = [tasks EXCEPT ![p] = [next EXCEPT !.pc = "wait"]]
                   /\ UNCHANGED tree
              ELSE IF ~fs.isDir[e]
              THEN /\ tree' = [tree EXCEPT ![p].Children = Append(@, childPath)]
                              @@ (childPath :> [child EXCEPT !.Size = fs.size[e],
                                                             !.Scanned = TRUE])
                   /\ tasks' = [tasks EXCEPT ![p] = next]
                   /\ UNCHANGED warnings
              ELSE /\ tree' = [tree EXCEPT ![p].Children = Append(@, childPath)]
                              @@ (childPath :> child)
                   /\ tasks' = [tasks EXCEPT ![p] = [next EXCEPT !.wg = @ + 1]]
                               @@ (childPath :> NewTask)
                   /\ UNCHANGED warnings
    /\ UNCHANGED <<searchVars, callerVars, fuzzyVars, uiVars>>
    /\ UNCHANGED <<rootPathLen, fs, maxConcurrency, excludeArg, semCap, sem, exclude,
                   scanPc, scanErr, scanRoot, listed>>

\* scanDir: one iteration of the loop over the listed entries
LoopEntry(p) ==
    /\ tasks[p].pc = "loop"
    /\ LET t         == tasks[p]
           e         == t.entries[t.idx]
           childPath == Join(p, e)
           next      == [t EXCEPT !.idx = @ + 1,
                                  !.pc = IF t.idx + 1 > Len(t.entries)
                                         THEN "wait" ELSE "loop"]
           child     == [Name |-> fs.name[e], IsDir |-> fs.isDir[e], Size |-> 0,
                         Children |-> <<>>, Parent |-> p, Scanned |-> FALSE]
       IN  /\ scannedCount' = scannedCount + 1
           /\ fsCalls' = IF fs.isDir[e] /\ ~isExcluded(exclude, fs, e)
                         THEN fsCalls \cup {FsCall("GetFileAttributes", PathOf(childPath))}
                         ELSE fsCalls
           /\ IF isExcluded(exclude, fs, e)
              THEN /\ tasks' = [tasks EXCEPT ![p] = next]
                   /\ UNCHANGED <<warnings, tree>>
              ELSE IF fs.isDir[e] /\ isReparsePoint(fs, childPath)
              THEN /\ warnings' = addWarning(warnings, <<"skipping junction/reparse", childPath>>)
                   /\ tasks' = [tasks EXCEPT ![p] = next]
                   /\ UNCHANGED tree
              ELSE IF e \in fs.statErr
              THEN /\ warnings' = addWarning(warnings, <<"cannot stat", childPath>>)
                   /\ tasks' = [tasks EXCEPT ![p] = next]
                   /\ UNCHANGED tree
              ELSE IF ~fs.isDir[e]
              THEN /\ tree' = [tree EXCEPT ![p].Children = Append(@, childPath)]
                              @@ (childPath :> [child EXCEPT !.Size = fs.size[e],
                                                             !.Scanned = TRUE])
                   /\ tasks' = [tasks EXCEPT ![p] = next]
                   /\ UNCHANGED warnings
              ELSE /\ tree' = [tree EXCEPT ![p].Children = Append(@, childPath)]
                              @@ (childPath :> child)
                   /\ tasks' = [tasks EXCEPT ![p] = [next EXCEPT !.wg = @ + 1]]
                               @@ (childPath :> NewTask)
                   /\ UNCHANGED warnings
    /\ UNCHANGED <<searchVars, callerVars, fuzzyVars, uiVars>>
    /\ UNCHANGED <<rootPathLen, fs, maxConcurrency, excludeArg, semCap, sem, exclude,
                   scanPc, scanErr, scanRoot, listed>>

\* scanDir: wg.Wait() returns, and scanDir with it
Wait(p) ==
    /\ tasks[p].pc = "wait"
    /\ wgWait(tasks[p])
    /\ LET x == TaskExit(tree, tasks, p)
       IN  tree' = x.tree /\ tasks' = x.tasks
    /\ UNCHANGED <<searchVars, callerVars, fuzzyVars, uiVars>>
    /\ UNCHANGED <<fsCalls, rootPathLen, fs, maxConcurrency, excludeArg, semCap, sem, exclude, warnings,
                   scannedCount, scanPc, scanErr, scanRoot, listed>>

\* Scan running calculateSizes without scanDir(root) having returned
\* (a faulty variant)
ScanReturn_NoJoin ==
    /\ scanPc = "scanning"
    /\ tree' = [calculateSizes(tree, <<fs.root>>) EXCEPT ![<<fs.root>>].Scanned = TRUE]
    /\ scanPc' = "ret"
    /\ scanErr' = FALSE
    /\ scanRoot' = <<fs.root>>
    /\ UNCHANGED <<searchVars, callerVars, fuzzyVars, uiVars>>
    /\ UNCHANGED <<fsCalls, rootPathLen, fs, maxConcurrency, excludeArg, semCap, sem, exclude, warnings,
                   scannedCount, tasks, listed>>

\* Scan, after scanDir(root) has returned
ScanReturn ==
    /\ scanPc = "scanning"
    /\ tasks[<<fs.root>>].pc = "done"
    /\ tree' = [calculateSizes(tree, <<fs.root>>) EXCEPT ![<<fs.root>>].Scanned = TRUE]
    /\ scanPc' = "ret"
    /\ scanErr' = FALSE
    /\ scanRoot' = <<fs.root>>
    /\ UNCHANGED <<searchVars, callerVars, fuzzyVars, uiVars>>
    /\ UNCHANGED <<fsCalls, rootPathLen, fs, maxConcurrency, excludeArg, semCap, sem, exclude, warnings,
                   scannedCount, tasks, listed>>

Next ==
    \/ Scan
    \/ \E p \in DOMAIN tasks : Acquire(p)
    \/ \E p \in DOMAIN tasks : ReadDir(p)
    \/ \E p \in DOMAIN tasks : LoopEntry(p)
    \/ \E p \in DOMAIN tasks : Wait(p)
    \/ ScanReturn

Spec == Init /\ [][Next]_vars

\* Every goroutine that can take a step eventually does.
FairSpec == Spec /\ WF_vars(Next)

\* ---------------------------------------------------------------- several scans on one Scanner

\* The filesystems of the repeated scans: a directory root that can be
\* listed, with a listing failure or a stat failure below it or a junction
\* back to it (each gives a warning of its own kind), or a root that is a
\* plain file.
RescanFs ==
    {f \in FsInputs :
        /\ ~f.rootStatErr /\ f.size["fa"] = 10
        /\ f.readErr \in {{}, {"a"}}
        /\ f.statErr \in {{}, {"c"}}
        /\ ~f.isDir[f.root] => (f.readErr = {} /\ f.statErr = {})
        /\ f.isDir["j"] => f.reparse["j"] = "yes"}

\* The warnings a Scanner holds after n scans of a root it could not list.
WarningsAfter(n) == [i \in 1 .. n |-> <<"cannot read", <<"r">> >>]

\* A Scanner before a Scan call: new, or with earlier scans behind it that
\* left it one warning short of the cap (each a scan of an unreadable
\* root: one warning, no entry counted).
InitRescan ==
    /\ fs \in RescanFs
    /\ maxConcurrency \in {1, 2}
    /\ excludeArg = <<>>
    /\ semCap = NewScannerCap(maxConcurrency)
    /\ sem = 0
    /\ exclude = NewScannerExclude(excludeArg)
    /\ warnings \in {WarningsAfter(0), WarningsAfter(MaxWarnings - 1)}
    /\ scannedCount = 0
    /\ scanPc = "idle"
    /\ scanErr = FALSE
    /\ scanRoot = Nil
    /\ tree = <<>>
    /\ tasks = <<>>
    /\ listed = <<>>
    /\ rootPathLen = ShortRootLen
    /\ fsCalls = {}
    /\ query = <<>>
    /\ maxResults = 0
    /\ searchRoot = Nil
    /\ searchPc = "idle"
    /\ pending = <<>>
    /\ h = <<>>
    /\ results = <<>>
    /\ scored = <<>>
    /\ searchCalls = 0
    /\ prevResults = <<>>
    /\ calls = 0
    /\ polled = 0
    /\ fmStr = <<>>
    /\ fmPattern = <<>>
    /\ fmPc = "idle"
    /\ fmMatched = FALSE
    /\ fmScore = 0
    /\ NoUi

\* Scan called again, with the counter set back to zero (a faulty variant)
NewCall_ResetCount ==
    /\ scanPc = "ret"
    /\ calls < MaxScans
    /\ calls' = calls + 1
    /\ fs' \in RescanFs
    /\ scanPc' = "idle"
    /\ scanErr' = FALSE
    /\ scanRoot' = Nil
    /\ tree' = <<>>
    /\ tasks' = <<>>
    /\ listed' = <<>>
    /\ scannedCount' = 0
    /\ UNCHANGED <<fsCalls, rootPathLen, maxConcurrency, excludeArg, semCap, sem, exclude, warnings>>
    /\ UNCHANGED <<polled, searchVars, fuzzyVars, uiVars>>

\* Scan is called again on the Scanner after the call before has returned:
\* the call starts with new locals and a new tree, and no field of the
\* Scanner is set back.
NewCall ==
    /\ scanPc = "ret"
    /\ calls < MaxScans
    /\ calls' = calls + 1
    /\ fs' \in RescanFs
    /\ scanPc' = "idle"
    /\ scanErr' = FALSE
    /\ scanRoot' = Nil
    /\ tree' = <<>>
    /\ tasks' = <<>>
    /\ listed' = <<>>
    /\ UNCHANGED <<fsCalls, rootPathLen, maxConcurrency, excludeArg, semCap, sem, exclude, warnings,
                   scannedCount>>
    /\ UNCHANGED <<polled, searchVars, fuzzyVars, uiVars>>

\* ScannedCount() called from the polling thread
Poll ==
    /\ polled' = scannedCount
    /\ UNCHANGED <<calls, scanVars, searchVars, fuzzyVars, uiVars>>

NextRescan ==
    \/ Next
    \/ NewCall
    \/ Poll

SpecRescan == InitRescan /\ [][NextRescan]_vars

\* ---------------------------------------------------------------- scans of long paths

RootLenInputs == {ShortRootLen} \cup ((MaxPathLen - MaxMargin) .. MaxPathLen)

\* A scan of a directory whose path is short, or as long as MaxPathLen or
\* a few characters shorter, so that the paths under it reach MaxPathLen.
InitLong ==
    /\ fs \in {f \in RescanFs : f.isDir[f.root]}
    /\ maxConcurrency \in {1, 2}
    /\ excludeArg \in {<<>>, << <<"b">> >>}
    /\ semCap = NewScannerCap(maxConcurrency)
    /\ sem = 0
    /\ exclude = NewScannerExclude(excludeArg)
    /\ warnings = <<>>
    /\ scannedCount = 0
    /\ scanPc = "idle"
    /\ scanErr = FALSE
    /\ scanRoot = Nil
    /\ tree = <<>>
    /\ tasks = <<>>
    /\ listed = <<>>
    /\ rootPathLen \in RootLenInputs
    /\ fsCalls = {}
    /\ query = <<>>
    /\ maxResults = 0
    /\ searchRoot = Nil
    /\ searchPc = "idle"
    /\ pending = <<>>
    /\ h = <<>>
    /\ results = <<>>
    /\ scored = <<>>
    /\ searchCalls = 0
    /\ prevResults = <<>>
    /\ calls = 0
    /\ polled = 0
    /\ fmStr = <<>>
    /\ fmPattern = <<>>
    /\ fmPc = "idle"
    /\ fmMatched = FALSE
    /\ fmScore = 0
    /\ NoUi

SpecLong == InitLong /\ [][Next]_vars

\* ---------------------------------------------------------------- fuzzy search

\* fuzzyMatch's loop with prevMatch never reset by a mismatch (a faulty variant)
RECURSIVE fuzzyLoop_StickyPrev(_, _, _, _, _, _)
fuzzyLoop_StickyPrev(str, pat, i, pIdx, score, prevMatch) ==
    IF ~(i < Len(str) /\ pIdx < Len(pat))
    THEN [matched |-> pIdx = Len(pat), score |-> score]
    ELSE IF str[i + 1] = pat[pIdx + 1]
    THEN fuzzyLoop_StickyPrev(str, pat, i + 1, pIdx + 1,
                   score + 1
                     + (IF prevMatch THEN 2 ELSE 0)
                     + (IF i = 0 \/ str[i] \in {"/", "\\", ".", "_", "-"} THEN 3 ELSE 0),
                   TRUE)
    ELSE fuzzyLoop_StickyPrev(str, pat, i + 1, pIdx, score, prevMatch)

\* fuzzyMatch: the loop from index i (0-based) on, with the loop's locals
RECURSIVE fuzzyLoop(_, _, _, _, _, _)
fuzzyLoop(str, pat, i, pIdx, score, prevMatch) ==
    IF ~(i < Len(str) /\ pIdx < Len(pat))
    THEN [matched |-> pIdx = Len(pat), score |-> score]
    ELSE IF str[i + 1] = pat[pIdx + 1]
    THEN fuzzyLoop(str, pat, i + 1, pIdx + 1,
                   score + 1
                     + (IF prevMatch THEN 2 ELSE 0)
                     + (IF i = 0 \/ str[i] \in {"/", "\\", ".", "_", "-"} THEN 3 ELSE 0),
                   TRUE)
    ELSE fuzzyLoop(str, pat, i + 1, pIdx, score, FALSE)

\* fuzzyMatch with the length test off by one, >= for > (a faulty variant)
fuzzyMatch_LengthOffByOne(str, pattern) ==
    LET strRunes == ToLower(str)
        patRunes == ToLower(pattern)
    IN  IF Len(patRunes) = 0 THEN [matched |-> TRUE, score |-> 0]
        ELSE IF Len(patRunes) >= Len(strRunes) THEN [matched |-> FALSE, score |-> 0]
        ELSE fuzzyLoop(strRunes, patRunes, 0, 0, 0, FALSE)

\* fuzzyMatch without the early return for a pattern longer than the name
\* (a faulty variant)
fuzzyMatch_NoLengthCheck(str, pattern) ==
    LET strRunes == ToLower(str)
        patRunes == ToLower(pattern)
    IN  IF Len(patRunes) = 0 THEN [matched |-> TRUE, score |-> 0]
        ELSE fuzzyLoop(strRunes, patRunes, 0, 0, 0, FALSE)

\* fuzzyMatch answering false for the empty pattern (a faulty variant)
fuzzyMatch_EmptyNoMatch(str, pattern) ==
    LET strRunes == ToLower(str)
        patRunes == ToLower(pattern)
    IN  IF Len(patRunes) = 0 THEN [matched |-> FALSE, score |-> 0]
        ELSE IF Len(patRunes) > Len(strRunes) THEN [matched |-> FALSE, score |-> 0]
        ELSE fuzzyLoop(strRunes, patRunes, 0, 0, 0, FALSE)

\* fuzzyMatch(str, pattern)
fuzzyMatch(str, pattern) ==
    LET strRunes == ToLower(str)
        patRunes == ToLower(pattern)
    IN  IF Len(patRunes) = 0 THEN [matched |-> TRUE, score |-> 0]
        ELSE IF Len(patRunes) > Len(strRunes) THEN [matched |-> FALSE, score |-> 0]
        ELSE fuzzyLoop(strRunes, patRunes, 0, 0, 0, FALSE)

\* Go's integer division, truncating toward zero
GoDiv(a, b) == IF a >= 0 THEN a \div b ELSE -((-a) \div b)

\* searchHeap.Less without the size tie-break (a faulty variant)
Less_ScoreOnly(tr, hp, i, j) == hp[i + 1].Score < hp[j + 1].Score

\* searchHeap.Less(i, j), indices 0-based as in the code
Less(tr, hp, i, j) ==
    IF hp[i + 1].Score # hp[j + 1].Score
    THEN hp[i + 1].Score < hp[j + 1].Score
    ELSE tr[hp[i + 1].Entry].Size < tr[hp[j + 1].Entry].Size

\* searchHeap.Swap(i, j)
Swap(hp, i, j) == [hp EXCEPT ![i + 1] = hp[j + 1], ![j + 1] = hp[i + 1]]

\* container/heap.up(h, j)
RECURSIVE up(_, _, _)
up(tr, hp, j) ==
    LET i == GoDiv(j - 1, 2)
    IN  IF i = j \/ ~Less(tr, hp, j, i) THEN hp
        ELSE up(tr, Swap(hp, i, j), i)

\* container/heap.down(h, i0, n): the heap, and whether the element moved
RECURSIVE downLoop(_, _, _, _, _)
downLoop(tr, hp, i0, i, n) ==
    LET j1 == 2 * i + 1
        j2 == j1 + 1
        j  == IF j1 < n /\ j2 < n /\ Less(tr, hp, j2, j1) THEN j2 ELSE j1
    IN  IF j1 >= n \/ j1 < 0 THEN [heap |-> hp, moved |-> i > i0]
        ELSE IF ~Less(tr, hp, j, i) THEN [heap |-> hp, moved |-> i > i0]
        ELSE downLoop(tr, Swap(hp, i, j), i0, j, n)

down(tr, hp, i0, n) == downLoop(tr, hp, i0, i0, n)

\* container/heap.Push(h, x): searchHeap.Push, then up
heapPush(tr, hp, x) == up(tr, Append(hp, x), Len(hp))

\* container/heap.Fix(h, i)
heapFix(tr, hp, i) ==
    LET d == down(tr, hp, i, Len(hp))
    IN  IF ~d.moved THEN up(tr, d.heap, i) ELSE d.heap

\* container/heap.Pop(h) without the sift-down of the swapped element (a faulty variant)
heapPop_NoDown(tr, hp) ==
    LET n == Len(hp) - 1
        d == Swap(hp, 0, n)
    IN  [item |-> d[n + 1], heap |-> SubSeq(d, 1, n)]

\* container/heap.Pop(h): the popped item and the remaining heap
heapPop(tr, hp) ==
    LET n == Len(hp) - 1
        d == down(tr, Swap(hp, 0, n), 0, n)
    IN  [item |-> d.heap[n + 1], heap |-> SubSeq(d.heap, 1, n)]

\* SearchTreeBounded: h.Len() < maxResults, and always true (a faulty variant)
hasRoom_Always(hp, k) == TRUE

hasRoom(hp, k) == Len(hp) < k

\* SearchTreeBounded: the candidate is better than the heap's top
beatsTop(tr, hp, entry, score) ==
    \/ score > hp[1].Score
    \/ score = hp[1].Score /\ tr[entry].Size > tr[hp[1].Entry].Size

\* The trees searched: root/{d1/{e1, e2}, d2/{e3}, e4} as a completed scan
\* leaves it (sizes summed, children sorted).
SearchRootPath == <<"r">>

LeafNames == { <<"l", "g">>, <<"L", "o", "g">>, <<"a", ".", "l">> }

RawSearchTree(n1, n2, n3, n4, z1, z2, z4) ==
    LET dir(name, parent, kids) ==
            [Name |-> name, IsDir |-> TRUE, Size |-> 0, Children |-> kids,
             Parent |-> parent, Scanned |-> TRUE]
        file(name, parent, size) ==
            [Name |-> name, IsDir |-> FALSE, Size |-> size, Children |-> <<>>,
             Parent |-> parent, Scanned |-> TRUE]
    IN  (<<"r">> :> dir(<<"l", "g">>, Nil,
                        << <<"r", "d1">>, <<"r", "d2">>, <<"r", "e4">> >>))
        @@ (<<"r", "d1">> :> dir(<<"l", "o", "g">>, <<"r">>,
                                 << <<"r", "d1", "e1">>, <<"r", "d1", "e2">> >>))
        @@ (<<"r", "d2">> :> dir(<<"x">>, <<"r">>, << <<"r", "d2", "e3">> >>))
        @@ (<<"r", "d1", "e1">> :> file(n1, <<"r", "d1">>, z1))
        @@ (<<"r", "d1", "e2">> :> file(n2, <<"r", "d1">>, z2))
        @@ (<<"r", "d2", "e3">> :> file(n3, <<"r", "d2">>, 2))
        @@ (<<"r", "e4">> :> file(n4, <<"r">>, z4))

SearchTrees ==
    { calculateSizes(RawSearchTree(n1, n2, n3, n4, z1, z2, z4), SearchRootPath) :
        n1 \in LeafNames, n2 \in LeafNames, n3 \in LeafNames, n4 \in LeafNames,
        z1 \in {1, 2}, z2 \in {1, 2}, z4 \in {1, 3} }

QueryInputs == { <<>>, <<"l">>, <<"L", "G">> }

MaxResultsInputs == (-1) .. MaxK

\* The state a search starts from: a scan has returned the tree.
InitSearch ==
    /\ fs = CHOOSE f \in PlainFs : ~f.rootStatErr /\ f.isDir[f.root]
    /\ maxConcurrency = 0
    /\ excludeArg = <<>>
    /\ semCap = NewScannerCap(maxConcurrency)
    /\ sem = 0
    /\ exclude = NewScannerExclude(excludeArg)
    /\ warnings = <<>>
    /\ scannedCount = 0
    /\ scanPc = "ret"
    /\ scanErr = FALSE
    /\ scanRoot = SearchRootPath
    /\ tree \in SearchTrees
    /\ tasks = <<>>
    /\ listed = <<>>
    /\ rootPathLen = ShortRootLen
    /\ fsCalls = {}
    /\ query \in QueryInputs
    /\ maxResults \in MaxResultsInputs
    /\ searchRoot \in {Nil, SearchRootPath}
    /\ searchPc = "idle"
    /\ pending = <<>>
    /\ h = <<>>
    /\ results = <<>>
    /\ scored = <<>>
    /\ searchCalls = 0
    /\ prevResults = <<>>
    /\ calls = 0
    /\ polled = 0
    /\ fmStr = <<>>
    /\ fmPattern = <<>>
    /\ fmPc = "idle"
    /\ fmMatched = FALSE
    /\ fmScore = 0
    /\ NoUi

\* SearchTreeBounded without the test of the empty query (a faulty variant)
SearchCall_NoQueryCheck ==
    /\ searchPc = "idle"
    /\ IF searchRoot = Nil \/ maxResults <= 0
       THEN /\ searchPc' = "ret"
            /\ results' = <<>>
            /\ UNCHANGED pending
       ELSE /\ pending' = tree[searchRoot].Children
            /\ searchPc' = IF tree[searchRoot].Children = <<>> THEN "ret" ELSE "walk"
            /\ results' = <<>>
    /\ h' = <<>>
    /\ UNCHANGED <<searchCalls, prevResults, query, maxResults, searchRoot, scored>>
    /\ UNCHANGED <<scanVars, callerVars, fuzzyVars, uiVars>>

\* SearchTreeBounded starting its walk at the root itself (a faulty variant)
SearchCall_WalksRoot ==
    /\ searchPc = "idle"
    /\ IF query = <<>> \/ searchRoot = Nil \/ maxResults <= 0
       THEN /\ searchPc' = "ret"
            /\ results' = <<>>
            /\ UNCHANGED pending
       ELSE /\ pending' = <<searchRoot>>
            /\ searchPc' = "walk"
            /\ results' = <<>>
    /\ h' = <<>>
    /\ UNCHANGED <<searchCalls, prevResults, query, maxResults, searchRoot, scored>>
    /\ UNCHANGED <<scanVars, callerVars, fuzzyVars, uiVars>>

\* SearchTreeBounded, up to the walk of the root's children
SearchCall ==
    /\ searchPc = "idle"
    /\ IF query = <<>> \/ searchRoot = Nil \/ maxResults <= 0
       THEN /\ searchPc' = "ret"
            /\ results' = <<>>
            /\ UNCHANGED pending
       ELSE /\ pending' = tree[searchRoot].Children
            /\ searchPc' = IF tree[searchRoot].Children = <<>> THEN "ret" ELSE "walk"
            /\ results' = <<>>
    /\ h' = <<>>
    /\ UNCHANGED <<searchCalls, prevResults, query, maxResults, searchRoot, scored>>
    /\ UNCHANGED <<scanVars, callerVars, fuzzyVars, uiVars>>

\* SearchTreeBounded's walk taking the children out of each entry it
\* visits (a faulty variant)
SearchVisit_DetachesChildren ==
    /\ searchPc = "walk"
    /\ pending # <<>>
    /\ LET entry == Head(pending)
           m     == fuzzyMatch(tree[entry].Name, query)
           rest  == tree[entry].Children \o Tail(pending)
           h2    == IF ~m.matched THEN h
                    ELSE IF hasRoom(h, maxResults)
                    THEN heapPush(tree, h, [Entry |-> entry, Score |-> m.score])
                    ELSE IF beatsTop(tree, h, entry, m.score)
                    THEN heapFix(tree, [h EXCEPT ![1] = [Entry |-> entry, Score |-> m.score]], 0)
                    ELSE h
       IN  /\ h' = h2
           /\ scored' = Append(scored, entry)
           /\ pending' = rest
           /\ searchPc' = IF rest # <<>> THEN "walk"
                          ELSE IF h2 # <<>> THEN "drain" ELSE "ret"
           /\ results' = IF rest = <<>> THEN [i \in 1 .. Len(h2) |-> Nil] ELSE results
    /\ UNCHANGED <<searchCalls, prevResults, query, maxResults, searchRoot>>
    /\ tree' = [tree EXCEPT ![Head(pending)].Children = <<>>]
    /\ UNCHANGED <<fsCalls, rootPathLen, fs, maxConcurrency, excludeArg, semCap, sem, exclude, warnings,
                   scannedCount, scanPc, scanErr, scanRoot, tasks, listed>>
    /\ UNCHANGED <<callerVars, fuzzyVars, uiVars>>

\* SearchTreeBounded: search(entry) on the next entry of the walk, its
\* children to follow; after the last entry, the result slice is made.
SearchVisit ==
    /\ searchPc = "walk"
    /\ pending # <<>>
    /\ LET entry == Head(pending)
           m     == fuzzyMatch(tree[entry].Name, query)
           rest  == tree[entry].Children \o Tail(pending)
           h2    == IF ~m.matched THEN h
                    ELSE IF hasRoom(h, maxResults)
                    THEN heapPush(tree, h, [Entry |-> entry, Score |-> m.score])
                    ELSE IF beatsTop(tree, h, entry, m.score)
                    THEN heapFix(tree, [h EXCEPT ![1] = [Entry |-> entry, Score |-> m.score]], 0)
                    ELSE h
       IN  /\ h' = h2
           /\ scored' = Append(scored, entry)
           /\ pending' = rest
           /\ searchPc' = IF rest # <<>> THEN "walk"
                          ELSE IF h2 # <<>> THEN "drain" ELSE "ret"
           /\ results' = IF rest = <<>> THEN [i \in 1 .. Len(h2) |-> Nil] ELSE results
    /\ UNCHANGED <<searchCalls, prevResults, query, maxResults, searchRoot>>
    /\ UNCHANGED <<scanVars, callerVars, fuzzyVars, uiVars>>

\* SearchTreeBounded: one iteration of the drain loop, results[i] = heap.Pop(h)
SearchDrain ==
    /\ searchPc = "drain"
    /\ h # <<>>
    /\ LET i == Len(h)
           x == heapPop(tree, h)
       IN  /\ results' = [results EXCEPT ![i] = x.item]
           /\ h' = x.heap
           /\ searchPc' = IF x.heap = <<>> THEN "ret" ELSE "drain"
    /\ UNCHANGED <<searchCalls, prevResults, query, maxResults, searchRoot, pending, scored>>
    /\ UNCHANGED <<scanVars, callerVars, fuzzyVars, uiVars>>

\* SearchTreeBounded is called again with the same tree, query and
\* maxResults, after the call before has returned.
SearchAgain ==
    /\ searchPc = "ret"
    /\ searchCalls < MaxRepeats
    /\ searchCalls' = searchCalls + 1
    /\ prevResults' = results
    /\ searchPc' = "idle"
    /\ scored' = <<>>
    /\ UNCHANGED <<query, maxResults, searchRoot, pending, h, results>>
    /\ UNCHANGED <<scanVars, callerVars, fuzzyVars, uiVars>>

NextSearch ==
    \/ SearchCall
    \/ SearchVisit
    \/ SearchDrain
    \/ SearchAgain

SpecSearch == InitSearch /\ [][NextSearch]_vars

\* ---------------------------------------------------------------- a call of fuzzyMatch

SeqsUpTo(S, n) == UNION {[1 .. k -> S] : k \in 0 .. n}

\* The runes of the candidate names: a lower-case and an upper-case letter
\* and the five characters that start a word.
StrRunes == {"a", "B", "/", "\\", ".", "_", "-"}

PatRunes == {"A", "b", "."}

StrInputs == SeqsUpTo(StrRunes, MaxStrLen)

PatternInputs == SeqsUpTo(PatRunes, MaxStrLen)

\* The state a call of fuzzyMatch starts from: any name, any pattern.
InitFuzzy ==
    /\ fs = CHOOSE f \in PlainFs : ~f.rootStatErr /\ f.isDir[f.root]
    /\ maxConcurrency = 0
    /\ excludeArg = <<>>
    /\ semCap = NewScannerCap(maxConcurrency)
    /\ sem = 0
    /\ exclude = NewScannerExclude(excludeArg)
    /\ warnings = <<>>
    /\ scannedCount = 0
    /\ scanPc = "idle"
    /\ scanErr = FALSE
    /\ scanRoot = Nil
    /\ tree = <<>>
    /\ tasks = <<>>
    /\ listed = <<>>
    /\ rootPathLen = ShortRootLen
    /\ fsCalls = {}
    /\ query = <<>>
    /\ maxResults = 0
    /\ searchRoot = Nil
    /\ searchPc = "idle"
    /\ pending = <<>>
    /\ h = <<>>
    /\ results = <<>>
    /\ scored = <<>>
    /\ searchCalls = 0
    /\ prevResults = <<>>
    /\ calls = 0
    /\ polled = 0
    /\ fmStr \in StrInputs
    /\ fmPattern \in PatternInputs
    /\ fmPc = "idle"
    /\ fmMatched = FALSE
    /\ fmScore = 0
    /\ NoUi

\* fuzzyMatch(fmStr, fmPattern) runs and returns
FuzzyCall ==
    /\ fmPc = "idle"
    /\ LET m == fuzzyMatch(fmStr, fmPattern)
       IN  /\ fmMatched' = m.matched
           /\ fmScore' = m.score
    /\ fmPc' = "ret"
    /\ UNCHANGED <<fmStr, fmPattern>>
    /\ UNCHANGED <<scanVars, searchVars, callerVars, uiVars>>

NextFuzzy == FuzzyCall

SpecFuzzy == InitFuzzy /\ [][NextFuzzy]_vars

\* ---------------------------------------------------------------- the analyzer UI

\* maxResults of the UI's searches
SearchLimit == 50

\* the size below which the L filter hides an entry
LargeThreshold == 100 * 1024 * 1024

\* NewAnalyzeModel's height
DefaultHeight == 24

\* SearchTreeBounded's closure search, on the entries still to visit
RECURSIVE search(_, _, _, _, _)
search(tr, pend, hp, q, k) ==
    IF pend = <<>> THEN hp
    ELSE LET entry == Head(pend)
             m     == fuzzyMatch(tr[entry].Name, q)
             h2    == IF ~m.matched THEN hp
                      ELSE IF hasRoom(hp, k)
                      THEN heapPush(tr, hp, [Entry |-> entry, Score |-> m.score])
                      ELSE IF beatsTop(tr, hp, entry, m.score)
                      THEN heapFix(tr, [hp EXCEPT ![1] = [Entry |-> entry, Score |-> m.score]], 0)
                      ELSE hp
         IN  search(tr, tr[entry].Children \o Tail(pend), h2, q, k)

\* SearchTreeBounded's drain loop
RECURSIVE drainHeap(_, _, _)
drainHeap(tr, hp, res) ==
    IF hp = <<>> THEN res
    ELSE LET x == heapPop(tr, hp) IN drainHeap(tr, x.heap, <<x.item>> \o res)

\* SearchTreeBounded as one call
SearchTreeBounded(tr, rt, q, k) ==
    IF q = <<>> \/ rt = Nil \/ k <= 0 THEN <<>>
    ELSE drainHeap(tr, search(tr, tr[rt].Children, <<>>, q, k), <<>>)

\* AnalyzeModel.viewportHeight
viewportHeight(ht) == IF ht - 8 < 1 THEN 1 ELSE ht - 8

\* AnalyzeModel.ensureVisible: the new offset
ensureVisible(csr, off, ht) ==
    LET vh   == viewportHeight(ht)
        off1 == IF csr < off THEN csr ELSE off
    IN  IF csr >= off1 + vh THEN csr - vh + 1 ELSE off1

\* AnalyzeModel.currentDepth
currentDepth(bc) == Len(bc)

\* AnalyzeModel.visibleItems
visibleItems(tr, cur, bc, lo, ms, md) ==
    IF cur = Nil THEN <<>>
    ELSE LET depth == IF md > 0 THEN currentDepth(bc) ELSE 0
             shown(c) == /\ ~(ms > 0 /\ tr[c].Size < ms)
                         /\ ~(lo /\ tr[c].Size < LargeThreshold)
                         /\ ~(md > 0 /\ tr[c].IsDir /\ depth >= md)
         IN  SelectSeq(tr[cur].Children, shown)

\* m.visibleItems() in the current state
items == visibleItems(tree, current, breadcrumb, largeOnly, minSize, maxDepth)

\* the test m.cursor >= 0 && m.cursor < len(items)
onItem == cursor >= 0 /\ cursor < Len(items)

\* s without its element at index i
RemoveAt(s, i) == SubSeq(s, 1, i - 1) \o SubSeq(s, i + 1, Len(s))

\* AnalyzeModel.removeEntry: the tree and the cursor it leaves
removeEntry(tr, cur, csr, path) ==
    IF cur = Nil \/ \A i \in DOMAIN tr[cur].Children : tr[cur].Children[i] # path
    THEN [tree |-> tr, cursor |-> csr]
    ELSE LET i    == CHOOSE j \in DOMAIN tr[cur].Children :
                        /\ tr[cur].Children[j] = path
                        /\ \A l \in 1 .. (j - 1) : tr[cur].Children[l] # path
             kids == RemoveAt(tr[cur].Children, i)
             total == SumSeq([l \in DOMAIN kids |-> tr[kids[l]].Size])
         IN  [tree   |-> [tr EXCEPT ![cur].Children = kids, ![cur].Size = total],
              cursor |-> IF csr >= Len(kids) /\ csr > 0 THEN csr - 1 ELSE csr]

\* navigateToEntry's trail: from c up to, and without, the root
RECURSIVE trailFrom(_, _, _)
trailFrom(tr, rt, c) ==
    IF c = Nil \/ c = rt THEN <<>>
    ELSE trailFrom(tr, rt, tr[c].Parent) \o <<c>>

\* AnalyzeModel.navigateToEntry: the fields it sets
navigateToEntry(tr, rt, entry, ht) ==
    LET cur == IF tr[entry].Parent # Nil THEN tr[entry].Parent ELSE rt
        at  == {i \in DOMAIN tr[cur].Children : tr[cur].Children[i] = entry}
        csr == IF at = {} THEN 0
               ELSE (CHOOSE i \in at : \A j \in at : i <= j) - 1
    IN  [breadcrumb |-> trailFrom(tr, rt, tr[entry].Parent),
         current    |-> cur,
         cursor     |-> csr,
         offset     |-> ensureVisible(csr, 0, ht)]

\* delete commands returned by Update in one run of the UI
MaxDeletes == 2

\* search timers running at once
MaxTicks == 2

\* runes in the search input
MaxQueryLen == 1

\* The tree the UI shows: r/{d1/{e1, e2, e3, s/}, e4} as a completed scan
\* leaves it (sizes summed, children sorted).
RawUiTree ==
    LET dir(name, parent, kids) ==
            [Name |-> name, IsDir |-> TRUE, Size |-> 0, Children |-> kids,
             Parent |-> parent, Scanned |-> TRUE]
        file(name, parent, size) ==
            [Name |-> name, IsDir |-> FALSE, Size |-> size, Children |-> <<>>,
             Parent |-> parent, Scanned |-> TRUE]
    IN  (<<"r">> :> dir(<<"l", "g">>, Nil, << <<"r", "d1">>, <<"r", "e4">> >>))
        @@ (<<"r", "d1">> :> dir(<<"L", "o", "g">>, <<"r">>,
               << <<"r", "d1", "s">>, <<"r", "d1", "e1">>,
                  <<"r", "d1", "e2">>, <<"r", "d1", "e3">> >>))
        @@ (<<"r", "d1", "s">> :> dir(<<"L", "o", "g">>, <<"r", "d1">>, <<>>))
        @@ (<<"r", "d1", "e1">> :> file(<<"l", "g">>, <<"r", "d1">>, LargeThreshold + 1))
        @@ (<<"r", "d1", "e2">> :> file(<<"a", ".", "l">>, <<"r", "d1">>, LargeThreshold))
        @@ (<<"r", "d1", "e3">> :> file(<<"l", "g">>, <<"r", "d1">>, 5))
        @@ (<<"r", "e4">> :> file(<<"x">>, <<"r">>, 7))

UiTree == calculateSizes(RawUiTree, SearchRootPath)

MaxDepthInputs == {0, 1}

MinSizeInputs == {0, 6}

HeightInputs == {9, DefaultHeight}

SearchRunesInputs == {"l"}

\* the search inputs that can be typed
QueryStrings == SeqsUpTo(SearchRunesInputs, MaxQueryLen)

\* NewAnalyzeModel(root, maxDepth, minSize) on the tree a scan has returned
InitUI ==
    /\ fs = CHOOSE f \in PlainFs : ~f.rootStatErr /\ f.isDir[f.root]
    /\ maxConcurrency = 0
    /\ excludeArg = <<>>
    /\ semCap = NewScannerCap(maxConcurrency)
    /\ sem = 0
    /\ exclude = NewScannerExclude(excludeArg)
    /\ warnings = <<>>
    /\ scannedCount = 0
    /\ scanPc = "ret"
    /\ scanErr = FALSE
    /\ scanRoot = SearchRootPath
    /\ tree = UiTree
    /\ tasks = <<>>
    /\ listed = <<>>
    /\ rootPathLen = ShortRootLen
    /\ fsCalls = {}
    /\ query = <<>>
    /\ maxResults = 0
    /\ searchRoot = Nil
    /\ searchPc = "idle"
    /\ pending = <<>>
    /\ h = <<>>
    /\ results = <<>>
    /\ scored = <<>>
    /\ searchCalls = 0
    /\ prevResults = <<>>
    /\ calls = 0
    /\ polled = 0
    /\ fmStr = <<>>
    /\ fmPattern = <<>>
    /\ fmPc = "idle"
    /\ fmMatched = FALSE
    /\ fmScore = 0
    /\ mRoot = scanRoot
    /\ current = scanRoot
    /\ cursor = 0
    /\ breadcrumb = <<>>
    /\ height = DefaultHeight
    /\ offset = 0
    /\ largeOnly = FALSE
    /\ confirmDelete = FALSE
    /\ quitting = FALSE
    /\ mErr = FALSE
    /\ maxDepth \in MaxDepthInputs
    /\ minSize \in MinSizeInputs
    /\ searching = FALSE
    /\ searchQuery = <<>>
    /\ searchResults = <<>>
    /\ searchCursor = 0
    /\ ticks = EmptyBag
    /\ deletes = EmptyBag
    /\ issued = 0
    /\ armed = Nil
    /\ lastMsg = NoMsg

\* the program is running: Update is called for every message until tea.Quit
UiOn == mRoot # Nil /\ ~quitting

\* a key message: "enter", "backspace", or "other" for every other key
Key(k) == [NoMsg EXCEPT !.kind = "key", !.key = k]

\* Update, search mode, tea.KeyEscape
SearchEsc ==
    /\ UiOn /\ searching
    /\ searching' = FALSE
    /\ searchQuery' = <<>>
    /\ searchResults' = <<>>
    /\ searchCursor' = 0
    /\ lastMsg' = Key("other")
    /\ UNCHANGED <<mRoot, current, cursor, breadcrumb, height, offset, largeOnly,
                   confirmDelete, quitting, mErr, maxDepth, minSize, ticks, deletes,
                   issued, armed>>
    /\ UNCHANGED <<scanVars, searchVars, callerVars, fuzzyVars>>

\* Update, search mode, tea.KeyEnter: the result under the search cursor is selected
SearchEnter ==
    /\ UiOn /\ searching
    /\ IF searchCursor >= 0 /\ searchCursor < Len(searchResults)
       THEN LET entry == searchResults[searchCursor + 1].Entry
                nav   == navigateToEntry(tree, mRoot, entry, height)
            IN  /\ breadcrumb' = nav.breadcrumb
                /\ current' = nav.current
                /\ cursor' = nav.cursor
                /\ offset' = nav.offset
                /\ searching' = FALSE
                /\ searchQuery' = <<>>
                /\ searchResults' = <<>>
                /\ searchCursor' = 0
                /\ lastMsg' = [Key("enter") EXCEPT !.selected = entry]
       ELSE /\ UNCHANGED <<breadcrumb, current, cursor, offset, searching,
                           searchQuery, searchResults, searchCursor>>
            /\ lastMsg' = Key("enter")
    /\ UNCHANGED <<mRoot, height, largeOnly, confirmDelete, quitting, mErr, maxDepth,
                   minSize, ticks, deletes, issued, armed>>
    /\ UNCHANGED <<scanVars, searchVars, callerVars, fuzzyVars>>

\* Update, search mode, tea.KeyUp
SearchUp ==
    /\ UiOn /\ searching
    /\ searchCursor' = IF searchCursor > 0 THEN searchCursor - 1 ELSE searchCursor
    /\ lastMsg' = Key("other")
    /\ UNCHANGED <<mRoot, current, cursor, breadcrumb, height, offset, largeOnly,
                   confirmDelete, quitting, mErr, maxDepth, minSize, searching,
                   searchQuery, searchResults, ticks, deletes, issued, armed>>
    /\ UNCHANGED <<scanVars, searchVars, callerVars, fuzzyVars>>

\* Update, search mode, tea.KeyDown
SearchDown ==
    /\ UiOn /\ searching
    /\ searchCursor' = IF searchCursor < Len(searchResults) - 1
                       THEN searchCursor + 1 ELSE searchCursor
    /\ lastMsg' = Key("other")
    /\ UNCHANGED <<mRoot, current, cursor, breadcrumb, height, offset, largeOnly,
                   confirmDelete, quitting, mErr, maxDepth, minSize, searching,
                   searchQuery, searchResults, ticks, deletes, issued, armed>>
    /\ UNCHANGED <<scanVars, searchVars, callerVars, fuzzyVars>>

\* Update, search mode, tea.KeyBackspace: the last rune goes, a tick is scheduled
SearchBackspace ==
    /\ UiOn /\ searching
    /\ Len(searchQuery) > 0 => BagCardinality(ticks) < MaxTicks
    /\ IF Len(searchQuery) > 0
       THEN LET q == SubSeq(searchQuery, 1, Len(searchQuery) - 1)
            IN  /\ searchQuery' = q
                /\ searchCursor' = 0
                /\ ticks' = ticks (+) SetToBag({q})
       ELSE UNCHANGED <<searchQuery, searchCursor, ticks>>
    /\ lastMsg' = Key("backspace")
    /\ UNCHANGED <<mRoot, current, cursor, breadcrumb, height, offset, largeOnly,
                   confirmDelete, quitting, mErr, maxDepth, minSize, searching,
                   searchResults, deletes, issued, armed>>
    /\ UNCHANGED <<scanVars, searchVars, callerVars, fuzzyVars>>

\* Update, search mode, tea.KeyRunes: the rune is appended, a tick is scheduled
SearchRunes(r) ==
    /\ UiOn /\ searching
    /\ Len(searchQuery) < MaxQueryLen
    /\ BagCardinality(ticks) < MaxTicks
    /\ searchQuery' = Append(searchQuery, r)
    /\ searchCursor' = 0
    /\ ticks' = ticks (+) SetToBag({Append(searchQuery, r)})
    /\ lastMsg' = Key("other")
    /\ UNCHANGED <<mRoot, current, cursor, breadcrumb, height, offset, largeOnly,
                   confirmDelete, quitting, mErr, maxDepth, minSize, searching,
                   searchResults, deletes, issued, armed>>
    /\ UNCHANGED <<scanVars, searchVars, callerVars, fuzzyVars>>

\* Update, search mode, any other key
SearchOtherKey ==
    /\ UiOn /\ searching
    /\ lastMsg' = Key("other")
    /\ UNCHANGED <<mRoot, current, cursor, breadcrumb, height, offset, largeOnly,
                   confirmDelete, quitting, mErr, maxDepth, minSize, searching,
                   searchQuery, searchResults, searchCursor, ticks, deletes, issued,
                   armed>>
    /\ UNCHANGED <<scanVars, searchVars, callerVars, fuzzyVars>>

\* Update, a delete confirmation pending, "enter": the delete command is returned
ConfirmEnter ==
    /\ UiOn /\ ~searching /\ confirmDelete
    /\ issued < MaxDeletes
    /\ confirmDelete' = FALSE
    /\ IF onItem
       THEN /\ deletes' = deletes (+) SetToBag({items[cursor + 1]})
            /\ issued' = issued + 1
            /\ lastMsg' = [Key("enter") EXCEPT !.deleteEntry = items[cursor + 1],
                                               !.armed = armed]
       ELSE /\ UNCHANGED <<deletes, issued>>
            /\ lastMsg' = Key("enter")
    /\ armed' = Nil
    /\ UNCHANGED <<mRoot, current, cursor, breadcrumb, height, offset, largeOnly,
                   quitting, mErr, maxDepth, minSize, searching, searchQuery,
                   searchResults, searchCursor, ticks>>
    /\ UNCHANGED <<scanVars, searchVars, callerVars, fuzzyVars>>

\* Update, a delete confirmation pending, any other key, without line 475 that
\* clears the confirmation (a faulty variant)
ConfirmOther_NoClear(k) ==
    /\ UiOn /\ ~searching /\ confirmDelete
    /\ lastMsg' = Key(k)
    /\ UNCHANGED <<mRoot, current, cursor, breadcrumb, height, offset, largeOnly,
                   confirmDelete, quitting, mErr, maxDepth, minSize, searching,
                   searchQuery, searchResults, searchCursor, ticks, deletes, issued,
                   armed>>
    /\ UNCHANGED <<scanVars, searchVars, callerVars, fuzzyVars>>

\* Update, a delete confirmation pending, any other key
ConfirmOther(k) ==
    /\ UiOn /\ ~searching /\ confirmDelete
    /\ confirmDelete' = FALSE
    /\ armed' = Nil
    /\ lastMsg' = Key(k)
    /\ UNCHANGED <<mRoot, current, cursor, breadcrumb, height, offset, largeOnly,
                   quitting, mErr, maxDepth, minSize, searching, searchQuery,
                   searchResults, searchCursor, ticks, deletes, issued>>
    /\ UNCHANGED <<scanVars, searchVars, callerVars, fuzzyVars>>

\* Update, "q", "ctrl+c" and "esc": tea.Quit
KeyQuit ==
    /\ UiOn /\ ~searching /\ ~confirmDelete
    /\ quitting' = TRUE
    /\ lastMsg' = Key("other")
    /\ UNCHANGED <<mRoot, current, cursor, breadcrumb, height, offset, largeOnly,
                   confirmDelete, mErr, maxDepth, minSize, searching, searchQuery,
                   searchResults, searchCursor, ticks, deletes, issued, armed>>
    /\ UNCHANGED <<scanVars, searchVars, callerVars, fuzzyVars>>

\* Update, "up" and "k"
KeyUp ==
    /\ UiOn /\ ~searching /\ ~confirmDelete
    /\ IF cursor > 0
       THEN /\ cursor' = cursor - 1
            /\ offset' = ensureVisible(cursor - 1, offset, height)
       ELSE UNCHANGED <<cursor, offset>>
    /\ lastMsg' = Key("other")
    /\ UNCHANGED <<mRoot, current, breadcrumb, height, largeOnly, confirmDelete,
                   quitting, mErr, maxDepth, minSize, searching, searchQuery,
                   searchResults, searchCursor, ticks, deletes, issued, armed>>
    /\ UNCHANGED <<scanVars, searchVars, callerVars, fuzzyVars>>

\* Update, "down" and "j"
KeyDown ==
    /\ UiOn /\ ~searching /\ ~confirmDelete
    /\ IF cursor < Len(items) - 1
       THEN /\ cursor' = cursor + 1
            /\ offset' = ensureVisible(cursor + 1, offset, height)
       ELSE UNCHANGED <<cursor, offset>>
    /\ lastMsg' = Key("other")
    /\ UNCHANGED <<mRoot, current, breadcrumb, height, largeOnly, confirmDelete,
                   quitting, mErr, maxDepth, minSize, searching, searchQuery,
                   searchResults, searchCursor, ticks, deletes, issued, armed>>
    /\ UNCHANGED <<scanVars, searchVars, callerVars, fuzzyVars>>

\* Update, "right" and "l": drill into the directory under the cursor
KeyRight ==
    /\ UiOn /\ ~searching /\ ~confirmDelete
    /\ IF onItem /\ tree[items[cursor + 1]].IsDir /\ Len(tree[items[cursor + 1]].Children) > 0
       THEN /\ breadcrumb' = Append(breadcrumb, current)
            /\ current' = items[cursor + 1]
            /\ cursor' = 0
            /\ offset' = 0
       ELSE UNCHANGED <<breadcrumb, current, cursor, offset>>
    /\ lastMsg' = Key("other")
    /\ UNCHANGED <<mRoot, height, largeOnly, confirmDelete, quitting, mErr, maxDepth,
                   minSize, searching, searchQuery, searchResults, searchCursor,
                   ticks, deletes, issued, armed>>
    /\ UNCHANGED <<scanVars, searchVars, callerVars, fuzzyVars>>

\* Update, "enter": openInExplorer, which leaves the model as it is
KeyEnter ==
    /\ UiOn /\ ~searching /\ ~confirmDelete
    /\ lastMsg' = Key("enter")
    /\ UNCHANGED <<mRoot, current, cursor, breadcrumb, height, offset, largeOnly,
                   confirmDelete, quitting, mErr, maxDepth, minSize, searching,
                   searchQuery, searchResults, searchCursor, ticks, deletes, issued,
                   armed>>
    /\ UNCHANGED <<scanVars, searchVars, callerVars, fuzzyVars>>

\* Update, "left" and "h": back to the directory on top of the breadcrumb
KeyLeft ==
    /\ UiOn /\ ~searching /\ ~confirmDelete
    /\ IF Len(breadcrumb) > 0
       THEN /\ current' = breadcrumb[Len(breadcrumb)]
            /\ breadcrumb' = SubSeq(breadcrumb, 1, Len(breadcrumb) - 1)
            /\ cursor' = 0
            /\ offset' = 0
       ELSE UNCHANGED <<breadcrumb, current, cursor, offset>>
    /\ lastMsg' = Key("other")
    /\ UNCHANGED <<mRoot, height, largeOnly, confirmDelete, quitting, mErr, maxDepth,
                   minSize, searching, searchQuery, searchResults, searchCursor,
                   ticks, deletes, issued, armed>>
    /\ UNCHANGED <<scanVars, searchVars, callerVars, fuzzyVars>>

\* Update, "backspace": the first key of the two-key delete
KeyBackspace ==
    /\ UiOn /\ ~searching /\ ~confirmDelete
    /\ IF onItem
       THEN /\ confirmDelete' = TRUE
            /\ armed' = items[cursor + 1]
       ELSE UNCHANGED <<confirmDelete, armed>>
    /\ lastMsg' = Key("backspace")
    /\ UNCHANGED <<mRoot, current, cursor, breadcrumb, height, offset, largeOnly,
                   quitting, mErr, maxDepth, minSize, searching, searchQuery,
                   searchResults, searchCursor, ticks, deletes, issued>>
    /\ UNCHANGED <<scanVars, searchVars, callerVars, fuzzyVars>>

\* Update, "L": the large-only filter is toggled
KeyLargeOnly ==
    /\ UiOn /\ ~searching /\ ~confirmDelete
    /\ largeOnly' = ~largeOnly
    /\ cursor' = 0
    /\ offset' = 0
    /\ lastMsg' = Key("other")
    /\ UNCHANGED <<mRoot, current, breadcrumb, height, confirmDelete, quitting, mErr,
                   maxDepth, minSize, searching, searchQuery, searchResults,
                   searchCursor, ticks, deletes, issued, armed>>
    /\ UNCHANGED <<scanVars, searchVars, callerVars, fuzzyVars>>

\* Update, "/": search mode is entered
KeySlash ==
    /\ UiOn /\ ~searching /\ ~confirmDelete
    /\ searching' = TRUE
    /\ searchQuery' = <<>>
    /\ searchResults' = <<>>
    /\ searchCursor' = 0
    /\ lastMsg' = Key("other")
    /\ UNCHANGED <<mRoot, current, cursor, breadcrumb, height, offset, largeOnly,
                   confirmDelete, quitting, mErr, maxDepth, minSize, ticks, deletes,
                   issued, armed>>
    /\ UNCHANGED <<scanVars, searchVars, callerVars, fuzzyVars>>

\* Update, any other key in normal mode
KeyOther ==
    /\ UiOn /\ ~searching /\ ~confirmDelete
    /\ lastMsg' = Key("other")
    /\ UNCHANGED <<mRoot, current, cursor, breadcrumb, height, offset, largeOnly,
                   confirmDelete, quitting, mErr, maxDepth, minSize, searching,
                   searchQuery, searchResults, searchCursor, ticks, deletes, issued,
                   armed>>
    /\ UNCHANGED <<scanVars, searchVars, callerVars, fuzzyVars>>

\* Update, tea.WindowSizeMsg (the width is used for rendering only)
WindowSize(ht) ==
    /\ UiOn
    /\ height' = ht
    /\ lastMsg' = [NoMsg EXCEPT !.kind = "size"]
    /\ UNCHANGED <<mRoot, current, cursor, breadcrumb, offset, largeOnly,
                   confirmDelete, quitting, mErr, maxDepth, minSize, searching,
                   searchQuery, searchResults, searchCursor, ticks, deletes, issued,
                   armed>>
    /\ UNCHANGED <<scanVars, searchVars, callerVars, fuzzyVars>>

\* Update, searchTickMsg, without the comparison of the tick's query with the
\* current one (a faulty variant)
SearchTick_NoDebounce(q) ==
    /\ UiOn
    /\ BagIn(q, ticks)
    /\ ticks' = ticks (-) SetToBag({q})
    /\ IF searching
       THEN LET res == SearchTreeBounded(tree, mRoot, q, SearchLimit)
            IN  /\ searchResults' = res
                /\ searchCursor' = IF searchCursor >= Len(res) THEN 0 ELSE searchCursor
       ELSE UNCHANGED <<searchResults, searchCursor>>
    /\ lastMsg' = [NoMsg EXCEPT !.kind = "tick", !.query = q]
    /\ UNCHANGED <<mRoot, current, cursor, breadcrumb, height, offset, largeOnly,
                   confirmDelete, quitting, mErr, maxDepth, minSize, searching,
                   searchQuery, deletes, issued, armed>>
    /\ UNCHANGED <<scanVars, searchVars, callerVars, fuzzyVars>>

\* Update, searchTickMsg: a timer scheduled with query q fires
SearchTick(q) ==
    /\ UiOn
    /\ BagIn(q, ticks)
    /\ ticks' = ticks (-) SetToBag({q})
    /\ IF searching /\ q = searchQuery
       THEN LET res == SearchTreeBounded(tree, mRoot, searchQuery, SearchLimit)
            IN  /\ searchResults' = res
                /\ searchCursor' = IF searchCursor >= Len(res) THEN 0 ELSE searchCursor
       ELSE UNCHANGED <<searchResults, searchCursor>>
    /\ lastMsg' = [NoMsg EXCEPT !.kind = "tick", !.query = q]
    /\ UNCHANGED <<mRoot, current, cursor, breadcrumb, height, offset, largeOnly,
                   confirmDelete, quitting, mErr, maxDepth, minSize, searching,
                   searchQuery, deletes, issued, armed>>
    /\ UNCHANGED <<scanVars, searchVars, callerVars, fuzzyVars>>

\* Update, deleteResultMsg: a deleteEntry command on path has returned, with
\* an error or without
DeleteResult(path, ok) ==
    /\ UiOn
    /\ BagIn(path, deletes)
    /\ deletes' = deletes (-) SetToBag({path})
    /\ IF ~ok
       THEN /\ mErr' = TRUE
            /\ UNCHANGED <<tree, cursor>>
       ELSE LET r == removeEntry(tree, current, cursor, path)
            IN  /\ tree' = r.tree
                /\ cursor' = r.cursor
                /\ UNCHANGED mErr
    /\ lastMsg' = [NoMsg EXCEPT !.kind = "deleteResult", !.path = path, !.ok = ok]
    /\ UNCHANGED <<mRoot, current, breadcrumb, height, offset, largeOnly,
                   confirmDelete, quitting, maxDepth, minSize, searching,
                   searchQuery, searchResults, searchCursor, ticks, issued, armed>>
    /\ UNCHANGED <<scanRest, searchVars, callerVars, fuzzyVars>>

\* A run of the UI with the delete keys and without search input: the
\* messages are navigation keys, the filter toggle, the two-key delete, the
\* results of the delete commands, and entering and leaving search mode.
NextUiDelete ==
    \/ ConfirmEnter
    \/ \E k \in {"backspace", "other"} : ConfirmOther(k)
    \/ KeyQuit
    \/ KeyUp
    \/ KeyDown
    \/ KeyRight
    \/ KeyEnter
    \/ KeyLeft
    \/ KeyBackspace
    \/ KeyLargeOnly
    \/ KeyOther
    \/ KeySlash
    \/ SearchEsc
    \/ SearchBackspace
    \/ SearchOtherKey
    \/ \E path \in DOMAIN tree : \E ok \in BOOLEAN : DeleteResult(path, ok)

SpecUiDelete == InitUI /\ [][NextUiDelete]_vars

\* A run of the UI with search and without the delete keys: the messages
\* are navigation keys, the filter toggle, window sizes, the keys of search
\* mode and the search ticks.
NextUiSearch ==
    \/ SearchEsc
    \/ SearchEnter
    \/ SearchUp
    \/ SearchDown
    \/ SearchBackspace
    \/ \E r \in SearchRunesInputs : SearchRunes(r)
    \/ SearchOtherKey
    \/ KeyQuit
    \/ KeyUp
    \/ KeyDown
    \/ KeyRight
    \/ KeyLeft
    \/ KeyLargeOnly
    \/ KeySlash
    \/ \E ht \in HeightInputs : WindowSize(ht)
    \/ \E q \in QueryStrings : SearchTick(q)

SpecUiSearch == InitUI /\ [][NextUiSearch]_vars

\* ---------------------------------------------------------------- properties of a scan

Range(s) == {s[i] : i \in DOMAIN s}

IsPrefix(q, p) == Len(q) <= Len(p) /\ SubSeq(p, 1, Len(q)) = q

RECURSIVE SumOver(_, _)
SumOver(S, f) ==
    IF S = {} THEN 0
    ELSE LET x == CHOOSE y \in S : TRUE IN f[x] + SumOver(S \ {x}, f)

\* The entries of the tree under p, p included.
RECURSIVE Desc(_, _)
Desc(tr, p) == {p} \cup UNION {Desc(tr, c) : c \in Range(tr[p].Children)}

ScanSucceeded == scanPc = "ret" /\ ~scanErr

ChildSizes(tr, d) == [i \in DOMAIN tr[d].Children |-> tr[tr[d].Children[i]].Size]

\* The token-pool capacity NewScanner is specified to give.
Capacity == IF maxConcurrency <= 0 THEN 8 ELSE maxConcurrency

InFlight == {p \in DOMAIN tasks : tasks[p].pc = "readdir"}

LiveTasks == {p \in DOMAIN tasks : tasks[p].pc # "done"}

\* The listings that succeeded.
OkListed == {p \in DOMAIN listed : ~ReadDirFails(fs, p)}

\* Node n carries an excluded name (compared case-insensitively).
NameExcluded(n) ==
    \E i \in DOMAIN excludeArg : ToLower(excludeArg[i]) = ToLower(fs.name[n])

\* The paths of the excluded directories the scan came across in a listing.
ExcludedSeen ==
    UNION { {Join(p, Listing(fs, p)[i]) :
                i \in {k \in DOMAIN Listing(fs, p) :
                          fs.isDir[Listing(fs, p)[k]] /\ NameExcluded(Listing(fs, p)[k])}} :
            p \in OkListed }

WarningPaths == {warnings[i][2] : i \in DOMAIN warnings}

\* C1: after a successful Scan of a directory root, every directory of the
\* returned tree (the root and the directories whose listing failed
\* included) has Size equal to the sum of its children's Size.
C1_SizeIsSumOfChildren ==
    (ScanSucceeded /\ tree[scanRoot].IsDir) =>
        \A d \in Desc(tree, scanRoot) :
            tree[d].IsDir => tree[d].Size = SumSeq(ChildSizes(tree, d))

C1_Witness ==
    /\ ScanSucceeded
    /\ tree[scanRoot].Size > 0
    /\ \E d \in Desc(tree, scanRoot) :
          /\ Len(d) = 2 /\ tree[d].IsDir /\ tree[d].Size > 0
    /\ \E d \in Desc(tree, scanRoot) :
          /\ Len(d) = 2 /\ tree[d].IsDir /\ d \in DOMAIN listed /\ ReadDirFails(fs, d)

\* C2: Scan eventually returns, for every input and every maxConcurrency,
\* and at every moment the tokens held are exactly those of the tasks that
\* are inside their one directory listing: no task holds a token while it
\* spawns or waits for subdirectory tasks.
C2_ScanReturns ==
    /\ <>(scanPc = "ret")
    /\ [](sem = Cardinality(InFlight))
    /\ [](semCap = Capacity)

C2_Witness ==
    /\ scanPc = "ret"
    /\ semCap = 1
    /\ Cardinality(DOMAIN tasks) >= 3

\* C3: the number of directory listings in flight never exceeds the pool
\* capacity (maxConcurrency, or 8 when maxConcurrency <= 0); the number of
\* live scan tasks is not so bounded (the witness).
C3_ListingsBounded == Cardinality(InFlight) <= Capacity

C3_Witness ==
    /\ Cardinality(InFlight) = Capacity
    /\ Cardinality(LiveTasks) > Capacity

\* A child of the root that redirects to the root.
SelfJunctions ==
    {n \in Range(fs.kids[fs.root]) : n # fs.root /\ fs.target[n] = fs.root}

\* C4 (as stated): a successful scan of a root that contains a
\* self-referential junction leaves at least one warning.
C4_AsStated ==
    (ScanSucceeded /\ fs.isDir[fs.root] /\ SelfJunctions # {}) => Len(warnings) >= 1

\* C4 (amended): the scan of a root that contains a self-referential
\* junction terminates, and it leaves at least one warning when the junction
\* is listed as a directory and its name is not excluded.
C4_JunctionScan ==
    /\ <>(scanPc = "ret")
    /\ []((/\ ScanSucceeded
           /\ fs.isDir[fs.root]
           /\ \E n \in SelfJunctions : fs.isDir[n] /\ ~NameExcluded(n))
          => Len(warnings) >= 1)

C4_Witness ==
    /\ ScanSucceeded
    /\ \E n \in SelfJunctions : fs.isDir[n] /\ ~NameExcluded(n)
    /\ \E i \in DOMAIN warnings : warnings[i][1] = "skipping junction/reparse"
    /\ Cardinality(DOMAIN tasks) >= 2

\* C5: a scanDir task is finished only when every task it spawned is
\* finished, so no task runs once Scan has returned, and no step changes the
\* tree after Scan has returned.
C5_Joined ==
    /\ [](\A p \in DOMAIN tasks : tasks[p].pc = "done" =>
             \A q \in DOMAIN tasks : IsPrefix(p, q) => tasks[q].pc = "done")
    /\ [](scanPc = "ret" => LiveTasks = {})
    /\ [][scanPc = "ret" => tree' = tree]_vars

C5_Witness ==
    /\ scanPc = "scanning"
    /\ \E p \in DOMAIN tasks :
          /\ Len(p) = 1
          /\ tasks[p].pc = "done"
          /\ Cardinality({q \in DOMAIN tasks : ParentPath(q) = p}) >= 2

\* C6: after a successful Scan the children of every directory are ordered
\* non-increasing by Size.
C6_ChildrenSortedDesc ==
    ScanSucceeded =>
        \A d \in Desc(tree, scanRoot) :
            \A i \in DOMAIN tree[d].Children :
                i > 1 => ChildSizes(tree, d)[i - 1] >= ChildSizes(tree, d)[i]

\* a(10), b(30), c(5) under the root: Size 45 and the order b, a, c.
C6_Witness ==
    /\ ScanSucceeded
    /\ tree[scanRoot].Size = 45
    /\ tree[scanRoot].Children = << <<"r", "b">>, <<"r", "a">>, <<"r", "c">> >>
    /\ ChildSizes(tree, scanRoot) = <<30, 10, 5>>

\* C7: Scan returns an error exactly when the stat of the root fails, and
\* then it returns no tree and has listed nothing; failures below the root
\* do not make it fail.
C7_OnlyRootStatIsFatal ==
    scanPc = "ret" =>
        /\ scanErr <=> fs.rootStatErr
        /\ scanErr => (scanRoot = Nil /\ DOMAIN listed = {} /\ DOMAIN tree = {})
        /\ ~scanErr => scanRoot = <<fs.root>>

C7_Witness ==
    /\ scanPc = "ret"
    /\ scanErr
    /\ fs.readErr # {}

\* C8 (as stated): a listed directory with an excluded name is never in the
\* tree, nothing at or under its path is listed or warned about, and the
\* scanned-entry count is what it would be without the excluded directories.
C8_AsStated ==
    ScanSucceeded =>
        /\ \A p \in DOMAIN tree :
              Len(p) > 1 => ~(tree[p].IsDir /\ NameExcluded(Last(p)))
        /\ \A q \in ExcludedSeen :
              /\ \A p \in DOMAIN tree \cup DOMAIN listed \cup WarningPaths :
                    ~IsPrefix(q, p)
        /\ scannedCount =
              SumOver(OkListed,
                      [p \in OkListed |->
                         Cardinality({k \in DOMAIN Listing(fs, p) :
                            ~(fs.isDir[Listing(fs, p)[k]]
                              /\ NameExcluded(Listing(fs, p)[k]))})])

\* C8 (amended): a listed child directory with an excluded name is never in
\* the tree, nothing at or under its path is listed or warned about, and it
\* adds exactly one to the scanned-entry count (the count is the number of
\* entries of the successful listings, the excluded ones included).
C8_ExcludedPruned ==
    ScanSucceeded =>
        /\ \A p \in DOMAIN tree :
              Len(p) > 1 => ~(tree[p].IsDir /\ NameExcluded(Last(p)))
        /\ \A q \in ExcludedSeen :
              /\ \A p \in DOMAIN tree \cup DOMAIN listed \cup WarningPaths :
                    ~IsPrefix(q, p)
        /\ scannedCount =
              SumOver(OkListed, [p \in OkListed |-> Len(Listing(fs, p))])

C8_Witness ==
    /\ ScanSucceeded
    /\ \E q \in ExcludedSeen : fs.kids[Last(q)] # <<>>
    /\ Len(warnings) >= 1

\* Node n redirects to another directory: a junction or symlink.
IsLink(n) == fs.target[n] # n

NoDuplicates(s) == \A i, j \in DOMAIN s : s[i] = s[j] => i = j

Occurrences(e) ==
    {<<d, i>> \in (DOMAIN tree) \X (1 .. Cardinality(DOMAIN tree)) :
        i \in DOMAIN tree[d].Children /\ tree[d].Children[i] = e}

\* C20: in the tree returned by Scan the root has no parent, every entry in
\* d.Children has d as its Parent, and every entry but the root occurs in
\* the Children of exactly one entry, once.
C20_ParentLinksConsistent ==
    ScanSucceeded =>
        /\ tree[scanRoot].Parent = Nil
        /\ \A d \in DOMAIN tree :
              \A c \in Range(tree[d].Children) : c \in DOMAIN tree /\ tree[c].Parent = d
        /\ \A e \in DOMAIN tree \ {scanRoot} : Cardinality(Occurrences(e)) = 1
        /\ Occurrences(scanRoot) = {}

\* A tree of six entries whose children the sort has reordered.
C20_Witness ==
    /\ ScanSucceeded
    /\ Cardinality(DOMAIN tree) = 6
    /\ tree[scanRoot].Children[1] = <<"r", "b">>
    /\ tree[<<"r", "b", "fb">>].Parent = <<"r", "b">>

\* The children the successful listings showed, as (path of the listed
\* directory, node) pairs.
ListedChildren ==
    UNION { {<<p, Listing(fs, p)[k]>> : k \in DOMAIN Listing(fs, p)} : p \in OkListed }

\* C21 (as stated): no listed child, file or directory, with an excluded
\* name is in the tree.
C21_AsStated ==
    ScanSucceeded =>
        \A pe \in ListedChildren :
            NameExcluded(pe[2]) => Join(pe[1], pe[2]) \notin DOMAIN tree

\* C21 (amended): a listed child that the listing reports as a directory
\* and whose name is excluded (compared case-insensitively) is not entered
\* into the tree and not recursed into; a listed child that is not reported
\* as a directory is entered into the tree whatever its name, unless its
\* metadata cannot be read.
C21_ExcludedDirsDropped ==
    /\ \A pe \in ListedChildren :
          (fs.isDir[pe[2]] /\ NameExcluded(pe[2])) =>
              /\ Join(pe[1], pe[2]) \notin DOMAIN tree
              /\ Join(pe[1], pe[2]) \notin DOMAIN tasks
    /\ ScanSucceeded =>
          \A pe \in ListedChildren :
              (~fs.isDir[pe[2]] /\ NameExcluded(pe[2]) /\ pe[2] \notin fs.statErr) =>
                  /\ Join(pe[1], pe[2]) \in DOMAIN tree
                  /\ Join(pe[1], pe[2]) \in Range(tree[pe[1]].Children)

\* Exclusion of B and c: the directory b is dropped with what is under it,
\* the file c is in the tree.
C21_Witness ==
    /\ ScanSucceeded
    /\ Len(excludeArg) = 2
    /\ <<"r", "c">> \in DOMAIN tree
    /\ <<"r", "b">> \notin DOMAIN tree
    /\ <<"r", "a", "fa">> \in DOMAIN tree
    /\ scannedCount = 4

\* C22: a Scan of a root that is not a directory returns at once a single
\* entry with Scanned = true, the file's size and no children, and the call
\* starts no task, lists nothing, takes no token and leaves the warnings and
\* the scanned-entry count as they were.
C22_FileRootIsLeaf ==
    /\ []((scanPc = "ret" /\ ~scanErr /\ ~fs.isDir[fs.root]) =>
            /\ scanRoot = <<fs.root>>
            /\ DOMAIN tree = {scanRoot}
            /\ tree[scanRoot] = [Name |-> fs.name[fs.root], IsDir |-> FALSE,
                                  Size |-> fs.size[fs.root], Children |-> <<>>,
                                  Parent |-> Nil, Scanned |-> TRUE]
            /\ DOMAIN tasks = {} /\ DOMAIN listed = {} /\ sem = 0)
    /\ [][(scanPc = "idle" /\ scanPc' # "idle" /\ ~fs.rootStatErr /\ ~fs.isDir[fs.root]) =>
            /\ scanPc' = "ret"
            /\ warnings' = warnings
            /\ scannedCount' = scannedCount
            /\ sem' = sem]_vars

\* The second scan on a Scanner, of a plain file, after a first scan that
\* counted entries and recorded warnings.
C22_Witness ==
    /\ calls = 1
    /\ scanPc = "ret"
    /\ ~fs.isDir[fs.root]
    /\ tree[scanRoot].Size = 7
    /\ scannedCount = 4
    /\ Len(warnings) = 2

\* Step of the size aggregation: the sizes are summed and the children sorted.
IsAggregation == scanPc = "scanning" /\ scanPc' = "ret"

\* C24: the size aggregation starts only when every scan task of the tree
\* has finished; it is the only step that changes the Size of a directory
\* or the order of children, it adds and removes no entry, and no child is
\* appended in it or after it.
C24_AggregationAfterScan ==
    /\ [][IsAggregation =>
            /\ LiveTasks = {}
            /\ DOMAIN tree' = DOMAIN tree
            /\ \A d \in DOMAIN tree :
                  /\ Len(tree'[d].Children) = Len(tree[d].Children)
                  /\ Range(tree'[d].Children) = Range(tree[d].Children)]_vars
    /\ [][~IsAggregation =>
            \A d \in DOMAIN tree \cap DOMAIN tree' :
                /\ tree[d].IsDir => tree'[d].Size = tree[d].Size
                /\ IsPrefix(tree[d].Children, tree'[d].Children)]_vars
    /\ [][scanPc = "ret" =>
            \A d \in DOMAIN tree \cap DOMAIN tree' :
                tree'[d].Children = tree[d].Children]_vars

\* An aggregation over three tasks' results that summed sizes and changed
\* the order of the root's children.
C24_Witness ==
    /\ scanPc = "ret"
    /\ Cardinality(DOMAIN tasks) = 3
    /\ LiveTasks = {}
    /\ tree[scanRoot].Size = 75
    /\ tree[scanRoot].Children[1] = <<"r", "a">>
    /\ tree[<<"r", "a">>].Size = 40

\* The listed subdirectories whose listing failed.
FailedSubdirs == {p \in DOMAIN listed : Len(p) > 1 /\ ReadDirFails(fs, p)}

\* Child e of the listed directory q is one the scan enters into the tree.
Entered(q, e) ==
    /\ ~(fs.isDir[e] /\ NameExcluded(e))
    /\ ~(fs.isDir[e] /\ fs.reparse[e] = "yes")
    /\ e \notin fs.statErr

\* C25 (as stated): for a subdirectory whose listing failed a warning is
\* recorded and the subdirectory is not in the tree Scan returns.
C25_AsStated ==
    ScanSucceeded =>
        \A p \in FailedSubdirs :
            /\ <<"cannot read", p>> \in Range(warnings)
            /\ p \notin DOMAIN tree

\* C25 (amended): for a subdirectory whose listing failed a warning is
\* recorded, the subdirectory is in the tree Scan returns as a directory
\* with no children and Size 0, and its siblings are scanned to completion:
\* each is in the tree and, if a directory, was listed.
C25_UnreadableDirKept ==
    ScanSucceeded =>
        \A p \in FailedSubdirs :
            /\ <<"cannot read", p>> \in Range(warnings)
            /\ p \in DOMAIN tree
            /\ p \in Range(tree[ParentPath(p)].Children)
            /\ tree[p].IsDir /\ tree[p].Children = <<>> /\ tree[p].Size = 0
            /\ tree[p].Scanned
            /\ \A e \in Range(Listing(fs, ParentPath(p))) :
                  Entered(ParentPath(p), e) =>
                      /\ Join(ParentPath(p), e) \in DOMAIN tree
                      /\ fs.isDir[e] => Join(ParentPath(p), e) \in DOMAIN listed

\* The listing of a failed; its siblings b, with fb under it, and c are in
\* the tree.
C25_Witness ==
    /\ ScanSucceeded
    /\ FailedSubdirs = {<<"r", "a">>}
    /\ tree[<<"r", "a">>].Children = <<>>
    /\ <<"r", "b", "fb">> \in DOMAIN tree
    /\ <<"r", "c">> \in DOMAIN tree
    /\ tree[scanRoot].Size = 35

\* The listed children whose e.Info() failed: those with unreadable
\* metadata that the exclusion and reparse-point tests let through.
StatFailed ==
    {pe \in ListedChildren :
        /\ pe[2] \in fs.statErr
        /\ ~(fs.isDir[pe[2]] /\ NameExcluded(pe[2]))
        /\ ~(fs.isDir[pe[2]] /\ fs.reparse[pe[2]] = "yes")}

\* C26: a listed child whose metadata cannot be read is not in the tree
\* (and, if a directory, is never listed), exactly one warning is recorded
\* for it, every other child of the same directory is processed, and Scan
\* does not fail.
C26_StatFailureSkipsChild ==
    scanPc = "ret" =>
        \A pe \in StatFailed :
            LET q == pe[1]
                c == Join(pe[1], pe[2])
            IN  /\ ~scanErr
                /\ c \notin DOMAIN tree /\ c \notin DOMAIN listed
                /\ c \notin Range(tree[q].Children)
                /\ Cardinality({i \in DOMAIN warnings : warnings[i][2] = c}) = 1
                /\ <<"cannot stat", c>> \in Range(warnings)
                /\ \A e \in Range(Listing(fs, q)) :
                      Entered(q, e) =>
                          /\ Join(q, e) \in Range(tree[q].Children)
                          /\ fs.isDir[e] => Join(q, e) \in DOMAIN listed

\* The metadata of the directory b cannot be read: b is left out, a before
\* it and c after it are in the tree.
C26_Witness ==
    /\ ScanSucceeded
    /\ StatFailed = {<< <<"r">>, "b" >>}
    /\ warnings = << <<"cannot stat", <<"r", "b">> >> >>
    /\ Range(tree[scanRoot].Children) = {<<"r", "a">>, <<"r", "c">>}
    /\ scannedCount = 4

\* The listed child directories whose reparse-point query failed (the
\* query is made for the directories the exclusion test lets through).
QueryFailed ==
    {pe \in ListedChildren :
        /\ fs.isDir[pe[2]]
        /\ ~NameExcluded(pe[2])
        /\ fs.reparse[pe[2]] = "err"}

\* C27: for every directory whose reparse-point attributes could not be
\* queried, a warning naming that directory is recorded.
C27_QueryFailureWarned ==
    ScanSucceeded =>
        \A pe \in QueryFailed :
            \E i \in DOMAIN warnings : warnings[i][2] = Join(pe[1], pe[2])

C30_ScannedMeansDone ==
    /\ ScanSucceeded => \A e \in DOMAIN tree : tree[e].Scanned
    /\ \A d \in DOMAIN tree :
          (tree[d].IsDir /\ tree[d].Scanned) =>
              /\ \A q \in DOMAIN tasks : IsPrefix(d, q) => tasks[q].pc = "done"
              /\ \A e \in DOMAIN tree : IsPrefix(d, e) => tree[e].Scanned

\* During a scan: a is scanned with its file under it, b is still being
\* scanned, the root is not yet marked.
C30_Witness ==
    /\ scanPc = "scanning"
    /\ {<<"r">>, <<"r", "a">>, <<"r", "a", "fa">>, <<"r", "b">>} \subseteq DOMAIN tree
    /\ tree[<<"r", "a">>].Scanned
    /\ <<"r", "b">> \in DOMAIN tasks
    /\ tasks[<<"r", "b">>].pc = "readdir"
    /\ ~tree[<<"r", "b">>].Scanned
    /\ ~tree[<<"r">>].Scanned

\* C17: over any number of scans on one Scanner the warnings list never
\* holds more than 500 entries and only grows at its end: every step leaves
\* the warnings held so far in place, and a step taken with 500 warnings
\* held leaves the list as it is.
C17_WarningsCappedAppendOnly ==
    /\ [](Len(warnings) <= 500)
    /\ [][IsPrefix(warnings, warnings')]_vars
    /\ [][Len(warnings) = 500 => warnings' = warnings]_vars

\* The second scan on a Scanner that held 499 warnings: the stat failure
\* of c took the last place, the listing failure of a was discarded.
C17_Witness ==
    /\ calls = 1
    /\ scanPc = "ret"
    /\ Len(warnings) = 500
    /\ fs.readErr = {"a"}
    /\ warnings[500] = <<"cannot stat", <<"r", "c">> >>
    /\ \A i \in DOMAIN warnings : warnings[i] # <<"cannot read", <<"r", "a">> >>

\* C18: the scanned-entry count never decreases, during a scan, after it
\* and from one Scan call to the next on the same Scanner, so the values the
\* polling thread reads one after the other never decrease.
C18_ScannedCountMonotonic ==
    /\ [][scannedCount' >= scannedCount]_vars
    /\ [][polled' >= polled]_vars
    /\ [](polled <= scannedCount)

\* A read during the second scan, after a read during the first.
C18_Witness ==
    /\ calls = 1
    /\ scanPc = "scanning"
    /\ polled >= 1
    /\ scannedCount > polled
    /\ scannedCount >= 5

\* ---------------------------------------------------------------- properties of a search

\* The entries under the root (the root excluded) whose name matches the query.
Matching ==
    IF searchRoot = Nil THEN {}
    ELSE {p \in Desc(tree, searchRoot) \ {searchRoot} :
            fuzzyMatch(tree[p].Name, query).matched}

ScoreOf(p) == fuzzyMatch(tree[p].Name, query).score

Returned == {results[i].Entry : i \in DOMAIN results}

\* a ranks at least as high as b: by score, then by size.
AtLeastAsGood(a, b) ==
    \/ ScoreOf(a) > ScoreOf(b)
    \/ ScoreOf(a) = ScoreOf(b) /\ tree[a].Size >= tree[b].Size

\* C9: at every step of a search the heap holds at most maxResults results
\* (none when maxResults <= 0), however many entries match.
C9_HeapBounded == Len(h) <= (IF maxResults > 0 THEN maxResults ELSE 0)

C9_Witness ==
    /\ searchPc = "walk"
    /\ Len(h) = maxResults
    /\ Cardinality(Range(scored) \cap Matching) > maxResults
    /\ Cardinality(Matching) > Cardinality(Range(scored) \cap Matching)

\* C10 (as stated): the search returns exactly min(maxResults, number of
\* matching non-root entries) results (read for maxResults >= 0), each at
\* least as good as every matching entry that was not returned.
C10_AsStated ==
    (searchPc = "ret" /\ maxResults >= 0) =>
        /\ Len(results) = Min(maxResults, Cardinality(Matching))
        /\ \A r \in Returned : \A m \in Matching \ Returned : AtLeastAsGood(r, m)

\* C10 (amended): for a non-empty query and maxResults >= 0 the search
\* returns exactly min(maxResults, number of matching non-root entries)
\* results, all of them distinct matching entries with their scores, each at
\* least as good as every matching entry that was not returned.
C10_TopK ==
    (searchPc = "ret" /\ query # <<>> /\ maxResults >= 0) =>
        /\ Len(results) = Min(maxResults, Cardinality(Matching))
        /\ Cardinality(Returned) = Len(results)
        /\ Returned \subseteq Matching
        /\ \A i \in DOMAIN results : results[i].Score = ScoreOf(results[i].Entry)
        /\ \A r \in Returned : \A m \in Matching \ Returned : AtLeastAsGood(r, m)

C10_Witness ==
    /\ searchPc = "ret"
    /\ maxResults >= 2
    /\ Len(results) = maxResults
    /\ Cardinality(Matching) > maxResults
    /\ \E r \in Returned : \E m \in Matching \ Returned :
          ScoreOf(r) = ScoreOf(m) /\ tree[r].Size > tree[m].Size
    /\ \E r \in Returned : \E m \in Matching \ Returned : ScoreOf(r) > ScoreOf(m)

\* C11: the sequence the search returns is ordered by score descending and,
\* among results of equal score, by entry size descending.
C11_ResultsOrdered ==
    searchPc = "ret" =>
        \A i \in DOMAIN results :
            i < Len(results) =>
                \/ results[i].Score > results[i + 1].Score
                \/ /\ results[i].Score = results[i + 1].Score
                   /\ tree[results[i].Entry].Size >= tree[results[i + 1].Entry].Size

C11_Witness ==
    /\ searchPc = "ret"
    /\ Len(results) = 3
    /\ Len(scored) > 3
    /\ results[1].Score > results[2].Score
    /\ results[2].Score = results[3].Score
    /\ tree[results[2].Entry].Size > tree[results[3].Entry].Size
    /\ \E i, j \in DOMAIN scored :
          i < j /\ scored[i] = results[3].Entry /\ scored[j] = results[1].Entry

\* C31: the root entry is never scored, never in the heap and never among
\* the results, even when its own name matches the query; no entry is scored
\* twice in one call; and when a call that walks the tree (non-empty query,
\* a root, maxResults > 0) has returned, every entry other than the root has
\* been scored exactly once.
C31_RootNeverReturned ==
    /\ searchRoot # Nil =>
          /\ searchRoot \notin Range(scored)
          /\ \A i \in DOMAIN h : h[i].Entry # searchRoot
          /\ \A i \in DOMAIN results : results[i] # Nil => results[i].Entry # searchRoot
    /\ NoDuplicates(scored)
    /\ (searchPc = "ret" /\ query # <<>> /\ searchRoot # Nil /\ maxResults > 0) =>
          Range(scored) = DOMAIN tree \ {searchRoot}

\* A search has returned fewer results than maxResults allows while the
\* root's own name matches the query.
C31_Witness ==
    /\ searchPc = "ret"
    /\ searchRoot # Nil
    /\ fuzzyMatch(tree[searchRoot].Name, query).matched
    /\ Len(results) >= 1
    /\ Len(results) < maxResults
    /\ Len(scored) = Cardinality(DOMAIN tree) - 1

C16_DegenerateInputsEmpty ==
    (searchPc = "ret" /\ (query = <<>> \/ searchRoot = Nil \/ maxResults <= 0)) =>
        (results = <<>> /\ scored = <<>> /\ h = <<>>)

\* The empty query on a tree every entry of which matches it.
C16_Witness ==
    /\ searchPc = "ret"
    /\ query = <<>>
    /\ searchRoot # Nil
    /\ maxResults = MaxK
    /\ Cardinality(Matching) >= 6
    /\ results = <<>>

\* ---------------------------------------------------------------- properties of fuzzyMatch

WordBreaks == {"/", "\\", ".", "_", "-"}

\* p is a subsequence of s: its elements occur in s in order, not
\* necessarily next to each other.
RECURSIVE IsSubsequence(_, _)
IsSubsequence(p, s) ==
    IF p = <<>> THEN TRUE
    ELSE IF s = <<>> THEN FALSE
    ELSE \/ Head(p) = Head(s) /\ IsSubsequence(Tail(p), Tail(s))
         \/ IsSubsequence(p, Tail(s))

\* The positions of s matched to the elements of p, each element taking
\* the first position after the one before it (as far as p can be matched).
RECURSIVE MatchedPositions(_, _, _)
MatchedPositions(s, p, from) ==
    LET cand == {i \in from .. Len(s) : p # <<>> /\ s[i] = Head(p)}
    IN  IF cand = {} THEN {}
        ELSE LET m == CHOOSE i \in cand : \A k \in cand : i <= k
             IN  {m} \cup MatchedPositions(s, Tail(p), m + 1)

\* C12: fuzzyMatch answers matched = true exactly when the pattern,
\* compared case-insensitively, is a subsequence of the candidate name.
C12_MatchedIffSubsequence ==
    fmPc = "ret" => (fmMatched <=> IsSubsequence(ToLower(fmPattern), ToLower(fmStr)))

C12_Witness ==
    /\ fmPc = "ret"
    /\ fmMatched
    /\ Len(fmPattern) = 2
    /\ Len(fmStr) = 3
    /\ fmStr[2] \notin {fmPattern[1], fmPattern[2]}
    /\ \E i \in DOMAIN fmPattern : \A k \in DOMAIN fmStr : fmStr[k] # fmPattern[i]

\* The bonus-carrying score of the matched positions M of name s: 1 for
\* each, 2 more when the position before it is matched too, 3 more when it
\* is the first position or follows a word break.
PositionScore(s, M) ==
    SumOver(M, [i \in M |-> 1 + (IF i - 1 \in M THEN 2 ELSE 0)
                              + (IF i = 1 \/ s[i - 1] \in WordBreaks THEN 3 ELSE 0)])

\* C13: for a successful match the score is the sum over the matched
\* positions of 1, plus 2 when the position before was matched too, plus 3
\* when the position is the first of the name or follows / \ . _ or -.
C13_ScoreIsSumOfBonuses ==
    (fmPc = "ret" /\ fmMatched) =>
        fmScore = PositionScore(fmStr, MatchedPositions(ToLower(fmStr), ToLower(fmPattern), 1))

\* A match of three characters: the first at the start of the name (1 + 3),
\* the second, a word break, next to it (1 + 2), the third next to it and
\* after the word break (1 + 2 + 3).
C13_Witness ==
    /\ fmPc = "ret"
    /\ fmMatched
    /\ MatchedPositions(ToLower(fmStr), ToLower(fmPattern), 1) = {1, 2, 3}
    /\ fmStr[2] \in WordBreaks
    /\ fmStr[3] # fmPattern[3]
    /\ fmScore = 13

\* C14 (as stated): fuzzyMatch returns score 0 whenever it returns
\* matched = false.
C14_AsStated == (fmPc = "ret" /\ ~fmMatched) => fmScore = 0

\* C14 (amended): when fuzzyMatch returns matched = false, the score is 0
\* exactly when the pattern is longer than the name or its first character
\* does not occur in the name; otherwise it is the score of the pattern
\* characters that did match.
C14_FailedMatchScore ==
    (fmPc = "ret" /\ ~fmMatched) =>
        /\ fmScore = 0 <=>
              \/ Len(fmPattern) > Len(fmStr)
              \/ \A i \in DOMAIN fmStr : ToLower(fmStr)[i] # ToLower(fmPattern)[1]
        /\ Len(fmPattern) <= Len(fmStr) =>
              fmScore = PositionScore(fmStr,
                           MatchedPositions(ToLower(fmStr), ToLower(fmPattern), 1))

C14_Witness ==
    /\ fmPc = "ret"
    /\ ~fmMatched
    /\ Len(fmPattern) = 2
    /\ Len(fmStr) = 3
    /\ fmScore = 4

\* C15: with the empty pattern fuzzyMatch returns (true, 0) for every name,
\* and with a pattern of more characters than the name it returns
\* matched = false.
C15_EmptyAndTooLong ==
    fmPc = "ret" =>
        /\ fmPattern = <<>> => (fmMatched /\ fmScore = 0)
        /\ Len(fmPattern) > Len(fmStr) => ~fmMatched

\* The empty pattern on a name of full length.
C15_Witness ==
    /\ fmPc = "ret"
    /\ fmPattern = <<>>
    /\ Len(fmStr) = MaxStrLen
    /\ fmMatched

\* ---------------------------------------------------------------- properties of the analyzer UI

\* The breadcrumb that drilling down from the root to d leaves: the
\* ancestors of d, from the root down to d's parent.
RECURSIVE DrillTrail(_, _)
DrillTrail(tr, d) ==
    IF tr[d].Parent = Nil THEN <<>>
    ELSE Append(DrillTrail(tr, tr[d].Parent), tr[d].Parent)

\* C32: when Enter has selected a search result, the current directory is
\* the result's parent and the breadcrumb is what drilling down from the
\* root to that directory leaves: its ancestors from the root down to its
\* parent (so that going back as many times as the breadcrumb is long ends
\* at the root).
C32_SelectionLikeDrill ==
    lastMsg.selected # Nil =>
        /\ current = tree[lastMsg.selected].Parent
        /\ breadcrumb = DrillTrail(tree, current)

\* C33: Update returns a delete command only for "enter" pressed while a
\* delete confirmation is pending; a confirmation becomes pending only by
\* "backspace" in normal mode with the cursor on a visible item; any other
\* key pressed while it is pending clears it, returns no command and
\* leaves the tree alone. Search mode and a pending confirmation exclude
\* each other.
C33_TwoKeyDelete ==
    [][ /\ (issued' # issued \/ BagCardinality(deletes') > BagCardinality(deletes)) =>
              /\ confirmDelete /\ ~confirmDelete'
              /\ lastMsg'.kind = "key" /\ lastMsg'.key = "enter"
              /\ issued' = issued + 1
        /\ (confirmDelete' /\ ~confirmDelete) =>
              /\ lastMsg'.kind = "key" /\ lastMsg'.key = "backspace"
              /\ ~searching
              /\ onItem
              /\ armed' = items[cursor + 1]
        /\ (confirmDelete /\ lastMsg'.kind = "key" /\ lastMsg'.key # "enter") =>
              /\ ~confirmDelete'
              /\ issued' = issued /\ deletes' = deletes /\ tree' = tree
        /\ ~(searching' /\ confirmDelete')
      ]_vars

\* Enter has just returned the second delete command of the run.
C33_Witness ==
    /\ lastMsg.kind = "key" /\ lastMsg.key = "enter"
    /\ lastMsg.deleteEntry # Nil
    /\ issued = 2
    /\ ~confirmDelete

\* C34: the entry of the delete command that Enter returns is the entry that
\* was under the cursor when Backspace armed the confirmation, also when the
\* result of an earlier deletion is processed between the two keys.
C34_DeletesArmedEntry ==
    lastMsg.deleteEntry # Nil => lastMsg.deleteEntry = lastMsg.armed

\* The entries of the tree the UI shows: those under the root.
Shown == Desc(tree, mRoot)

\* C36: when a deleteResultMsg without error has been processed, every
\* directory of the tree, the ancestors of the displayed directory
\* included, has as Size the sum of its children's Size.
C36_SizesAfterDelete ==
    (lastMsg.kind = "deleteResult" /\ lastMsg.ok) =>
        \A d \in Shown : tree[d].IsDir => tree[d].Size = SumSeq(ChildSizes(tree, d))

\* C37: when a deleteResultMsg without error has been processed, the entry
\* at its path is no longer in the tree, whatever keys were pressed between
\* the confirming Enter and the message.
C37_DeletedEntryGone ==
    (lastMsg.kind = "deleteResult" /\ lastMsg.ok) => lastMsg.path \notin Shown

\* C38: whenever the list of visible items is not empty, the cursor is an
\* index into it.
C38_CursorOnItem ==
    (mRoot # Nil /\ Len(items) > 0) => (0 <= cursor /\ cursor < Len(items))

\* the fields of the AnalyzeModel
modelFields == <<mRoot, current, cursor, breadcrumb, height, offset, largeOnly,
                 confirmDelete, quitting, mErr, maxDepth, minSize, searching,
                 searchQuery, searchResults, searchCursor>>

\* C35: a search tick whose query is not the current search query, or that
\* arrives outside search mode, leaves every field of the model and the
\* tree as they are; and whenever the search results change, the new
\* results are what SearchTreeBounded returns on the tree for the search
\* query of the new state (nothing, for the empty query).
C35_StaleTickIgnored ==
    [][ /\ (lastMsg'.kind = "tick" /\ (~searching \/ lastMsg'.query # searchQuery)) =>
              /\ modelFields' = modelFields
              /\ tree' = tree
        /\ searchResults' # searchResults =>
              searchResults' = SearchTreeBounded(tree', mRoot', searchQuery', SearchLimit)
      ]_vars

\* In search mode with the query "l" and its results shown, the tick of
\* the empty query has just arrived and changed nothing.
C35_Witness ==
    /\ lastMsg.kind = "tick"
    /\ lastMsg.query = <<>>
    /\ searching
    /\ searchQuery = <<"l">>
    /\ Len(searchResults) > 1
    /\ searchCursor > 0

====
